---- MODULE Spec2Model ----
(***************************************************************************)
(* A model of the read-only SQLite query engine of this repository: the    *)
(* byte source and the page map of Db (src/src/db/mod.rs), the table and   *)
(* index B-tree iterators of src/src/db/table.rs, and Sql::execute of      *)
(* src/src/sql/mod.rs.                                                      *)
(*                                                                         *)
(* Option values are sequences: None is <<>> and Some(x) is <<x>>.          *)
(* Text is a sequence of byte values, compared in lexicographic order.      *)
(***************************************************************************)
EXTENDS Integers, Sequences, FiniteSets, TLC

VARIABLES
    r,          \* Db.r: the byte source, [file, written, pos]
    pages,      \* Db.pages: page number -> page buffer
    disk,       \* what each page of the file decodes to (never changes)
    table,      \* the Table built by Db::table, None before
    iter,       \* the iterator of the running query (TableRows / IndexRows)
    yielded,    \* history: what each next() of iter returned, Some(rowid) or None
    panicked,   \* an unwrap() has aborted the process
    loads,      \* history: page number -> successful reads of that page's bytes
    ret,        \* the result of the last operation
    call,       \* the Db::page call under way, with the MutexGuards it holds
    checked     \* the build panics on integer overflow (overflow-checks)

vars == <<r, pages, disk, table, iter, yielded, panicked, loads, ret, call, checked>>

\* No Db::page call is under way: no MutexGuard is alive.
NoCall == [pc |-> "idle", num |-> 0, held |-> {}, ps |-> 0, buf |-> <<>>]

None == <<>>
Some(x) == <<x>>

Max(a, b) == IF a >= b THEN a ELSE b
Min(a, b) == IF a <= b THEN a ELSE b

(***************************************************************************)
(* Bounds of the model.                                                    *)
(***************************************************************************)
MaxRowid == 5     \* rowids of the stored rows are drawn from 1..MaxRowid
MaxKeyed == 4     \* rowids of the rows whose colors and key spelling vary: 1..MaxKeyed
MaxCap == 2       \* cells per leaf page of a generated B-tree: 1..MaxCap
MaxTypes == 2     \* serial types in the header of a generated record: 0..MaxTypes
MaxBody == 6      \* body bytes of a generated record: 0..MaxBody
MaxIx == 2        \* indexes of the table of a generated database: 0..MaxIx
MaxLit == 2       \* bytes of a string literal or a text value compared: 0..MaxLit
MaxCont == 10     \* continuation bytes at the start of a varint input: 0..MaxCont

(***************************************************************************)
(* The byte source. A source is the file it was opened on, [ps, n] (page   *)
(* size and page count), overlaid with the bytes written to it since, and  *)
(* its seek position. A buffer filled by read_exact is the range read,     *)
(* [off, len], with the overlay the source had at that moment.             *)
(***************************************************************************)
FILE_HEADER_SIZE == 100

\* Byte i (from 1) of the file as created: the page size is the big-endian
\* 16-bit field at offset 16; every other byte depends on its offset and its
\* page, so that no two pages hold the same bytes.
FileByte(file, i) ==
    IF i = 17 THEN file.ps \div 256
    ELSE IF i = 18 THEN file.ps % 256
    ELSE ((i - 1) * 7 + ((i - 1) \div file.ps)) % 256

SrcLen(src) == src.file.ps * src.file.n

\* Byte i (from 1) of the source now.
SrcByte(src, i) ==
    IF i \in DOMAIN src.written THEN src.written[i] ELSE FileByte(src.file, i)

\* Byte j (from 1) of a buffer.
BufByte(buf, j) ==
    IF buf.off + j \in DOMAIN buf.written THEN buf.written[buf.off + j]
    ELSE FileByte(buf.file, buf.off + j)

EmptyBuf(src) == [file |-> src.file, off |-> 0, len |-> 0, written |-> <<>>]

\* FileHeader::page_size: u16::from_be_bytes([self.0[16], self.0[17]])
page_size(hdr) == BufByte(hdr, 17) * 256 + BufByte(hdr, 18)

\* A faulty variant of read_db: the first byte of the region read is zeroed in the
\* source.
ReadDbWrites(src, offset, n) ==
    LET end == offset + n
        ok == end <= SrcLen(src)
    IN  [ok |-> ok,
         buf |-> IF ok
                 THEN [file |-> src.file, off |-> offset, len |-> n, written |-> src.written]
                 ELSE EmptyBuf(src),
         r |-> [src EXCEPT !.pos = IF ok THEN end ELSE Max(offset, SrcLen(src)),
                           !.written = IF ok /\ n > 0 THEN ((offset + 1) :> 0) @@ @ ELSE @]]

\* Db::read_db: seek(SeekFrom::Start(offset)), then read_exact(buf).
\* A read past the end of the source fails and leaves the position at the
\* end of what could be read.
read_db(src, offset, n) ==
    LET end == offset + n
        ok == end <= SrcLen(src)
    IN  [ok |-> ok,
         buf |-> IF ok
                 THEN [file |-> src.file, off |-> offset, len |-> n, written |-> src.written]
                 ELSE EmptyBuf(src),
         r |-> [src EXCEPT !.pos = IF ok THEN end ELSE Max(offset, SrcLen(src))]]

\* The Db object as a value threaded through one handler: the source, the
\* page map and the history of page reads.
DbState == [r |-> r, pages |-> pages, loads |-> loads]

\* Db::file_header
FileHeaderResult(d, rd) == [ok |-> rd.ok, hdr |-> rd.buf, d |-> [d EXCEPT !.r = rd.r]]
file_header(d) == FileHeaderResult(d, read_db(d.r, 0, FILE_HEADER_SIZE))

\* Page::builder().header_offset(..).buffer(buf).build()
PageView(num, buf) ==
    [buffer |-> buf, header_offset |-> IF num = 1 THEN FILE_HEADER_SIZE ELSE 0]

PageErr(d) == [ok |-> FALSE, page |-> PageView(0, EmptyBuf(d.r)), d |-> d]

\* A faulty variant of the page offset: page num is taken to start at num * page_size.
PageOffsetOffByOne(num, ps) == num * ps

\* let offset = (num - 1) as u64 * page_size as u64
PageOffset(num, ps) == (num - 1) * ps

\* A faulty variant of the insertion: the buffer read is not stored in the page map.
PageInsertDropped(pgs, num, buf) == pgs

\* A faulty variant of the insertion: the page map is emptied before the
\* buffer is stored.
PageInsertEvicting(pgs, num, buf) == (num :> buf)

\* pages.insert(num, buf.clone())
PageInsert(pgs, num, buf) == (num :> buf) @@ pgs

\* Db::page after read_db of the page: the buffer goes into the page map.
PageReadResult(d, num, rd) ==
    IF ~rd.ok THEN PageErr([d EXCEPT !.r = rd.r])
    ELSE [ok |-> TRUE,
          page |-> PageView(num, rd.buf),
          d |-> [d EXCEPT !.r = rd.r,
                          !.pages = PageInsert(@, num, rd.buf),
                          !.loads = [@ EXCEPT ![num] = @ + 1]]]

\* Db::page on a miss, the page size known.
PageMiss(d, num, ps) == PageReadResult(d, num, read_db(d.r, PageOffset(num, ps), ps))

\* Db::page on a miss, after self.file_header().
PageAfterHeader(num, fh) ==
    IF ~fh.ok THEN PageErr(fh.d) ELSE PageMiss(fh.d, num, page_size(fh.hdr))

\* A faulty variant of Db::page: page number 0 is looked up and read like
\* any other.
DbPageZeroRead(d, num) ==
    IF num \in DOMAIN d.pages
    THEN [ok |-> TRUE, page |-> PageView(num, d.pages[num]), d |-> d]
    ELSE PageAfterHeader(num, file_header(d))

\* Db::page
DbPage(d, num) ==
    IF num = 0 THEN PageErr(d)
    ELSE IF num \in DOMAIN d.pages
    THEN [ok |-> TRUE, page |-> PageView(num, d.pages[num]), d |-> d]
    ELSE PageAfterHeader(num, file_header(d))

(***************************************************************************)
(* Values, records and cells.                                              *)
(***************************************************************************)
RvNull == [t |-> "Null"]
RvInt(n) == [t |-> "Int", v |-> n]
RvText(s) == [t |-> "Text", v |-> s]
RvPrimaryKey(n) == [t |-> "PrimaryKey", v |-> n]

\* Lexicographic order of two byte strings (str::partial_cmp).
RECURSIVE StrLess(_, _)
StrLess(a, b) ==
    IF b = <<>> THEN FALSE
    ELSE IF a = <<>> THEN TRUE
    ELSE IF Head(a) # Head(b) THEN Head(a) < Head(b)
    ELSE StrLess(Tail(a), Tail(b))

\* A faulty variant of the comparison: a Blob of the same bytes is equal too.
ValueEqBytes(v, s) == v.t \in {"Text", "Blob"} /\ v.v = s

\* impl PartialEq<&str> for RecordValue
ValueEq(v, s) == v.t = "Text" /\ v.v = s

\* impl PartialOrd<&str> for RecordValue, as used by `value >= key`
ValueGe(v, s) == v.t = "Text" /\ ~StrLess(v.v, s)

\* impl PartialOrd<&str> for RecordValue: Some(ordering), or None.
partial_cmp(v, s) ==
    IF v.t = "Text"
    THEN Some(IF v.v = s THEN "Equal" ELSE IF StrLess(v.v, s) THEN "Less" ELSE "Greater")
    ELSE None

\* Record::column
RecordColumn(payload, num) ==
    IF num + 1 \in DOMAIN payload THEN Some(payload[num + 1]) ELSE None

\* Cell::rowid
CellRowid(cell) ==
    IF cell.kind \in {"InteriorTable", "LeafTable"} THEN Some(cell.rowid) ELSE None

\* Cell::column
CellColumn(cell, num) ==
    IF cell.kind = "LeafTable" THEN RecordColumn(cell.payload, num) ELSE None

\* Cell::index_payload
index_payload(cell) ==
    IF cell.kind \in {"InteriorIndex", "LeafIndex"}
    THEN LET key == RecordColumn(cell.payload, 0)
             rid == RecordColumn(cell.payload, 1)
         IN  IF key # None /\ rid # None /\ rid[1].t = "Int" /\ rid[1].v >= 0
             THEN Some([key |-> key[1], rowid |-> rid[1].v])
             ELSE None
    ELSE None

LeafTableCell(rowid, payload) == [kind |-> "LeafTable", rowid |-> rowid, payload |-> payload]
InteriorTableCell(left, rowid) == [kind |-> "InteriorTable", left |-> left, rowid |-> rowid]
LeafIndexCell(payload) == [kind |-> "LeafIndex", payload |-> payload]
InteriorIndexCell(left, payload) == [kind |-> "InteriorIndex", left |-> left, payload |-> payload]

\* A decoded page: its type, its cells in cell-pointer order, and the
\* right-most pointer of an interior page (None on a leaf).
LeafPage(type, cells) == [type |-> type, cells |-> cells, right |-> None]
InteriorPage(type, cells, right) == [type |-> type, cells |-> cells, right |-> Some(right)]

(***************************************************************************)
(* Decoding a record from the bytes of a cell payload (src/src/db/varint.rs *)
(* and src/src/db/cell.rs). The cursor over the payload is the payload and  *)
(* the number of bytes already read, `pos`.                                 *)
(***************************************************************************)
\* Read::read_exact of n bytes: Some(bytes), or None when fewer are left.
ReadExact(bytes, pos, n) ==
    IF pos + n <= Len(bytes) THEN Some(SubSeq(bytes, pos + 1, pos + n)) ELSE None

\* split_byte: the continuation flag and the low 7 bits.
split_byte(byte) == [more |-> byte >= 128, num |-> byte % 128]

\* A u64 is four 16-bit limbs, most significant first, so that a shift drops
\* the bits that leave the word exactly as the machine does.
Limb == 2^16
U64Zero == <<0, 0, 0, 0>>

\* num as u64, for a num below 2^31.
U64Of(num) == <<0, 0, num \div Limb, num % Limb>>

\* value << n for n < 16: the n top bits are lost, n zero bits come in.
Shl(value, n) ==
    LET keep == 2^(16 - n)
    IN  <<(value[1] % keep) * 2^n + value[2] \div keep,
          (value[2] % keep) * 2^n + value[3] \div keep,
          (value[3] % keep) * 2^n + value[4] \div keep,
          (value[4] % keep) * 2^n>>

\* value + num with the carries. The carry never leaves the word in
\* Varint::new: the seven low bits of value are 0 and num < 128.
U64Add(value, num) ==
    LET s4 == value[4] + num[4]
        s3 == value[3] + num[3] + s4 \div Limb
        s2 == value[2] + num[2] + s3 \div Limb
        s1 == value[1] + num[1] + s2 \div Limb
    IN  <<s1 % Limb, s2 % Limb, s3 % Limb, s4 % Limb>>

\* The number a u64 holds, for the header sizes and serial types of the
\* records decoded here, which are below 2^31.
U64Int(value) == value[3] * Limb + value[4]

VarintErr == [ok |-> FALSE, value |-> U64Zero, byte_len |-> 0, pos |-> 0]

\* The loop of Varint::new: while read_more, value <<= 7 and the next byte
\* is added. Nothing but the continuation flag ends the loop.
RECURSIVE VarintLoop(_, _, _, _, _), VarintNext(_, _, _, _, _)
VarintLoop(bytes, start, bytes_read, value, read_more) ==
    IF ~read_more
    THEN [ok |-> TRUE, value |-> value, byte_len |-> bytes_read, pos |-> start + bytes_read]
    ELSE IF start + bytes_read >= Len(bytes) THEN VarintErr
    ELSE VarintNext(bytes, start, bytes_read + 1, Shl(value, 7),
                    split_byte(bytes[start + bytes_read + 1]))
VarintNext(bytes, start, bytes_read, shifted, sp) ==
    VarintLoop(bytes, start, bytes_read, U64Add(shifted, U64Of(sp.num)), sp.more)

\* Varint::new
VarintFirst(bytes, pos, sp) == VarintLoop(bytes, pos, 1, U64Of(sp.num), sp.more)
VarintNew(bytes, pos) ==
    IF pos >= Len(bytes) THEN VarintErr ELSE VarintFirst(bytes, pos, split_byte(bytes[pos + 1]))

\* SerialType::new: the variant and the number of body bytes its value is
\* read from. "Invalid" is the arm that panics.
SerialTypeNew(num) ==
    CASE num = 0 -> [t |-> "Null", n |-> 0]
      [] num = 1 -> [t |-> "TwosComplement8", n |-> 1]
      [] num = 2 -> [t |-> "TwosComplement16", n |-> 2]
      [] num = 3 -> [t |-> "TwosComplement24", n |-> 3]
      [] num = 4 -> [t |-> "TwosComplement32", n |-> 4]
      [] num = 5 -> [t |-> "TwosComplement48", n |-> 6]
      [] num = 6 -> [t |-> "TwosComplement64", n |-> 8]
      [] num = 7 -> [t |-> "Float", n |-> 8]
      [] num = 8 -> [t |-> "Zero", n |-> 0]
      [] num = 9 -> [t |-> "One", n |-> 0]
      [] num % 2 = 0 /\ num >= 12 -> [t |-> "Blob", n |-> (num - 12) \div 2]
      [] num % 2 = 1 /\ num >= 13 -> [t |-> "Text", n |-> (num - 13) \div 2]
      [] OTHER -> [t |-> "Invalid", n |-> 0]

\* What decoding ends in: Ok(..), Err(Error::Io | Error::FromUtf8), or a
\* panic of the thread with its message.
RecOk(values) == [kind |-> "Ok", values |-> values]
\* Ok(..) with where the cursor over the payload stands, and with what the
\* header loop ended on.
Consumed(rec, pos) == rec @@ [consumed |-> pos]
HeaderRead(rec, bytes_read, size, headers) ==
    IF rec.kind # "Ok" THEN rec
    ELSE rec @@ [header_read |-> bytes_read, header_size |-> size, types |-> headers]
RecErr(error) == [kind |-> "Err", error |-> error]
RecPanic(message) == [kind |-> "Panic", message |-> message]
ValOk(value, pos) == [kind |-> "Ok", value |-> value, pos |-> pos]

RvFloat(bytes) == [t |-> "Float", v |-> bytes]
RvBlob(bytes) == [t |-> "Blob", v |-> bytes]

\* uN::from_be_bytes
RECURSIVE UnsignedBe(_)
UnsignedBe(bs) ==
    IF bs = <<>> THEN 0 ELSE UnsignedBe(SubSeq(bs, 1, Len(bs) - 1)) * 256 + bs[Len(bs)]

\* iN::from_be_bytes: the first byte carries the sign.
SignedBe(bs) == UnsignedBe(<<IF bs[1] >= 128 THEN bs[1] - 256 ELSE bs[1]>> \o Tail(bs))

\* String::from_utf8 accepts the bytes: well-formed UTF-8 sequences only.
RECURSIVE Utf8Valid(_)
Utf8Valid(bs) ==
    LET n == Len(bs)
        cont(i, lo, hi) == i <= n /\ bs[i] >= lo /\ bs[i] <= hi
        rest(k) == Utf8Valid(SubSeq(bs, k + 1, n))
        b == bs[1]
    IN  IF n = 0 THEN TRUE
        ELSE IF b < 128 THEN rest(1)
        ELSE IF b >= 194 /\ b <= 223 THEN cont(2, 128, 191) /\ rest(2)
        ELSE IF b = 224 THEN cont(2, 160, 191) /\ cont(3, 128, 191) /\ rest(3)
        ELSE IF b = 237 THEN cont(2, 128, 159) /\ cont(3, 128, 191) /\ rest(3)
        ELSE IF b >= 225 /\ b <= 239 THEN cont(2, 128, 191) /\ cont(3, 128, 191) /\ rest(3)
        ELSE IF b = 240
        THEN cont(2, 144, 191) /\ cont(3, 128, 191) /\ cont(4, 128, 191) /\ rest(4)
        ELSE IF b >= 241 /\ b <= 243
        THEN cont(2, 128, 191) /\ cont(3, 128, 191) /\ cont(4, 128, 191) /\ rest(4)
        ELSE IF b = 244
        THEN cont(2, 128, 143) /\ cont(3, 128, 191) /\ cont(4, 128, 191) /\ rest(4)
        ELSE FALSE

\* RecordValue::new: read the body of the serial type, then make the value.
RecordValueOf(type, pos, body) ==
    IF body = None THEN RecErr("Io")
    ELSE CASE type.t = "Null" -> ValOk(RvNull, pos)
           [] type.t \in {"TwosComplement8", "TwosComplement16", "TwosComplement32",
                          "TwosComplement64"} -> ValOk(RvInt(SignedBe(body[1])), pos + type.n)
           [] type.t = "TwosComplement24" -> ValOk(RvInt(UnsignedBe(body[1])), pos + type.n)
           [] type.t = "TwosComplement48" -> RecPanic("not implemented")
           [] type.t = "Float" -> ValOk(RvFloat(body[1]), pos + type.n)
           [] type.t = "Zero" -> ValOk(RvInt(0), pos)
           [] type.t = "One" -> ValOk(RvInt(1), pos)
           [] type.t = "Blob" -> ValOk(RvBlob(body[1]), pos + type.n)
           [] OTHER -> IF Utf8Valid(body[1]) THEN ValOk(RvText(body[1]), pos + type.n)
                       ELSE RecErr("FromUtf8")
RecordValueNew(type, bytes, pos) == RecordValueOf(type, pos, ReadExact(bytes, pos, type.n))

\* Record::new: the header_size varint, the serial types while fewer bytes
\* than header_size were read, then one value per serial type.
RECURSIVE RecordValues(_, _, _, _), ValuePush(_, _, _, _)
RecordValues(bytes, pos, headers, values) ==
    IF headers = <<>> THEN Consumed(RecOk(values), pos)
    ELSE ValuePush(bytes, Tail(headers), values, RecordValueNew(Head(headers), bytes, pos))
ValuePush(bytes, rest, values, rv) ==
    IF rv.kind # "Ok" THEN rv
    ELSE RecordValues(bytes, rv.pos, rest, Append(values, rv.value))

RECURSIVE HeaderLoop(_, _, _, _, _), HeaderVarint(_, _, _, _, _), HeaderPush(_, _, _, _, _, _)
HeaderLoop(bytes, pos, bytes_read, size, headers) ==
    IF bytes_read >= size
    THEN HeaderRead(RecordValues(bytes, pos, headers, <<>>), bytes_read, size, headers)
    ELSE HeaderVarint(bytes, bytes_read, size, headers, VarintNew(bytes, pos))
HeaderVarint(bytes, bytes_read, size, headers, v) ==
    IF ~v.ok THEN RecErr("Io")
    ELSE HeaderPush(bytes, v.pos, bytes_read + v.byte_len, size, headers,
                    SerialTypeNew(U64Int(v.value)))
HeaderPush(bytes, pos, bytes_read, size, headers, st) ==
    IF st.t = "Invalid" THEN RecPanic("Invalid serial type")
    ELSE HeaderLoop(bytes, pos, bytes_read, size, Append(headers, st))

RecordAfterSize(bytes, header_size) ==
    IF ~header_size.ok THEN RecErr("Io")
    ELSE HeaderLoop(bytes, header_size.pos, header_size.byte_len, U64Int(header_size.value), <<>>)
RecordNew(bytes) == RecordAfterSize(bytes, VarintNew(bytes, 0))

\* PageType::new: Some(type) for Ok, None for Err.
PageTypeNew(byte) ==
    CASE byte = 2 -> Some("InteriorIndex")
      [] byte = 5 -> Some("InteriorTable")
      [] byte = 10 -> Some("LeafIndex")
      [] byte = 13 -> Some("LeafTable")
      [] OTHER -> None

(***************************************************************************)
(* The databases the model is run on: a schema page (page 1), one table    *)
(* "t" (id, name, color) whose B-tree starts at page 2, and one index      *)
(* "idx" on t(color) whose B-tree follows the table's pages.               *)
(***************************************************************************)
Keys == {<<1>>, <<2>>}

\* The record of row id: the rowid alias is stored as Null.
RowPayload(id, color) == <<RvNull, RvText(<<9, id>>), RvText(color)>>

RECURSIVE SeqOfSet(_)
SeqOfSet(S) ==
    IF S = {} THEN <<>>
    ELSE LET m == CHOOSE x \in S : \A y \in S : x <= y
         IN  <<m>> \o SeqOfSet(S \ {m})

Chunk(seq, c, k) == SubSeq(seq, (k - 1) * c + 1, Min(k * c, Len(seq)))
NumChunks(n, c) == IF n = 0 THEN 1 ELSE (n + c - 1) \div c

TableLeaf(ids, colors) ==
    LeafPage("LeafTable",
             [i \in 1..Len(ids) |-> LeafTableCell(ids[i], RowPayload(ids[i], colors[ids[i]]))])

\* The key of the interior cell between leaf k and leaf k+1: the largest
\* rowid of leaf k, or (slack) any larger value below the rowids of leaf k+1,
\* as a file has it after rows were deleted.
Divider(ids, c, k, slack) ==
    IF slack THEN Chunk(ids, c, k + 1)[1] - 1
    ELSE LET ch == Chunk(ids, c, k) IN ch[Len(ch)]

\* The pages of a table B-tree whose root is page `base`, as a sequence:
\* element i is page base + i - 1.
TableTree(ids, colors, c, depth, slack, base) ==
    LET m == NumChunks(Len(ids), c)
        G == m \div 2
        first(g) == 2 * (g - 1) + 1
        last(g) == IF g = G THEN m ELSE 2 * g
    IN  IF depth = 1 \/ m < 2 THEN <<TableLeaf(ids, colors)>>
        ELSE IF depth = 2 \/ m < 4
        THEN <<InteriorPage("InteriorTable",
                   [k \in 1..(m - 1) |-> InteriorTableCell(base + k, Divider(ids, c, k, slack))],
                   base + m)>>
             \o [k \in 1..m |-> TableLeaf(Chunk(ids, c, k), colors)]
        ELSE <<InteriorPage("InteriorTable",
                   [g \in 1..(G - 1) |->
                       InteriorTableCell(base + g, Divider(ids, c, last(g), slack))],
                   base + G)>>
             \o [g \in 1..G |->
                   InteriorPage("InteriorTable",
                       [j \in 1..(last(g) - first(g)) |->
                           InteriorTableCell(base + G + first(g) + j - 1,
                                             Divider(ids, c, first(g) + j - 1, slack))],
                       base + G + last(g))]
             \o [k \in 1..m |-> TableLeaf(Chunk(ids, c, k), colors)]

EntryLess(a, b) == StrLess(a.key, b.key) \/ (a.key = b.key /\ a.rowid < b.rowid)

RECURSIVE SortEntries(_)
SortEntries(S) ==
    IF S = {} THEN <<>>
    ELSE LET m == CHOOSE x \in S : \A y \in S : x = y \/ EntryLess(x, y)
         IN  <<m>> \o SortEntries(S \ {m})

IndexPayload(e) == <<RvText(e.key), RvInt(e.rowid)>>

IndexLeaf(es) == LeafPage("LeafIndex", [i \in 1..Len(es) |-> LeafIndexCell(IndexPayload(es[i]))])

\* The pages of an index B-tree whose root is page `base`: the entries in
\* (key, rowid) order, every c+1-th entry held by an interior cell.
IndexTree(es, c, depth, base) ==
    LET n == Len(es)
        m == IF n = 0 THEN 1 ELSE (n + c) \div (c + 1)
        leaf(k) == IF k = m THEN SubSeq(es, (m - 1) * (c + 1) + 1, n)
                   ELSE SubSeq(es, (k - 1) * (c + 1) + 1, (k - 1) * (c + 1) + c)
    IN  IF depth = 1 \/ m < 2 THEN <<IndexLeaf(es)>>
        ELSE <<InteriorPage("InteriorIndex",
                   [k \in 1..(m - 1) |->
                       InteriorIndexCell(base + k, IndexPayload(es[k * (c + 1)]))],
                   base + m)>>
             \o [k \in 1..m |-> IndexLeaf(leaf(k))]

\* The column definitions of CREATE TABLE t, each a sequence of words.
ColDefs(pkdef) == <<pkdef, <<"name", "text">>, <<"color", "text">>>>

\* Page 1: one schema row for the table, one for the index.
SchemaPage(pkdef, idxroot) ==
    LeafPage("LeafTable",
        <<LeafTableCell(1, <<RvText("table"), RvText("t"), RvText("t"), RvInt(2),
                             RvText([col_defs |-> ColDefs(pkdef), name |-> "t"])>>),
          LeafTableCell(2, <<RvText("index"), RvText("idx"), RvText("t"), RvInt(idxroot),
                             RvText([cols |-> <<"color">>, name |-> "idx"])>>)>>)

\* Page 1 of a database whose table t has one index for each column list
\* of ixs: index i has its root on page 2 + i.
SchemaPageIx(ixs) ==
    LeafPage("LeafTable",
        <<LeafTableCell(1, <<RvText("table"), RvText("t"), RvText("t"), RvInt(2),
                             RvText([col_defs |-> ColDefs(<<"id", "integer", "primary", "key">>),
                                     name |-> "t"])>>)>>
        \o [i \in DOMAIN ixs |->
               LeafTableCell(1 + i, <<RvText("index"), RvText(<<"idx", i>>), RvText("t"),
                                      RvInt(2 + i),
                                      RvText([cols |-> ixs[i], name |-> <<"idx", i>>])>>)])

\* A database whose table t has no rows yet: the table and each of its
\* indexes are one empty leaf page.
DatabaseIx(ixs) ==
    <<SchemaPageIx(ixs), LeafPage("LeafTable", <<>>)>>
        \o [i \in DOMAIN ixs |-> LeafPage("LeafIndex", <<>>)]

\* A page whose first byte is none of the four page types.
InvalidPage == [type |-> "Invalid", cells |-> <<>>, right |-> None]

\* The database with page k overwritten by such a page.
Corrupt(db, k) == [db EXCEPT ![k] = InvalidPage]

\* The database with the record of row `id` cut to its first two columns,
\* as a row written before the last column was added to the table; the
\* index entry of that row has a Null key.
ShortCell(cell, id) ==
    IF cell.kind = "LeafTable"
    THEN (IF cell.rowid = id THEN [cell EXCEPT !.payload = SubSeq(@, 1, 2)] ELSE cell)
    ELSE IF cell.kind \in {"LeafIndex", "InteriorIndex"} /\ cell.payload[2] = RvInt(id)
    THEN [cell EXCEPT !.payload[1] = RvNull]
    ELSE cell
Shorten(db, id) ==
    [k \in DOMAIN db |->
        IF k = 1 THEN db[k]
        ELSE [type |-> db[k].type,
              cells |-> [i \in DOMAIN db[k].cells |-> ShortCell(db[k].cells[i], id)],
              right |-> db[k].right]]

\* The decoded pages of a whole database file, page 1 first.
Database(ids, colors, c, tdepth, slack, idepth, pkdef) ==
    LET tt == TableTree(ids, colors, c, tdepth, slack, 2)
        es == SortEntries({[key |-> colors[ids[i]], rowid |-> ids[i]] : i \in 1..Len(ids)})
        it == IndexTree(es, c, idepth, 2 + Len(tt))
    IN  <<SchemaPage(pkdef, 2 + Len(tt))>> \o tt \o it

(***************************************************************************)
(* Page decoding and the two B-tree searches of Page.                      *)
(***************************************************************************)
\* What a page view decodes to. The bytes of the buffer determine the page:
\* a buffer that holds the bytes of page n of the file decodes to disk[n],
\* any other buffer does not decode.
Decoded(view) ==
    LET buf == view.buffer
        ps == buf.file.ps
        n == buf.off \div ps + 1
    IN  IF buf.len = ps /\ buf.off % ps = 0 /\ n \in DOMAIN disk
           /\ \A i \in DOMAIN buf.written :
                  (i > buf.off /\ i <= buf.off + ps) => buf.written[i] = FileByte(buf.file, i)
        THEN Some(disk[n])
        ELSE None

SearchErr == [kind |-> "Err"]
Pointer(p) == [kind |-> "Pointer", p |-> p]
Leaf(cell) == [kind |-> "Leaf", cell |-> cell]
PointerOrRowId(p, rowid) == [kind |-> "PointerOrRowId", p |-> p, rowid |-> rowid]
RowIdResult(rowid) == [kind |-> "RowId", rowid |-> rowid]

FirstOf(S) == CHOOSE i \in S : \A j \in S : i <= j

\* Page::btree_scan on the decoded page.
ScanPage(dp, target) ==
    IF dp = None THEN SearchErr
    ELSE LET pg == dp[1]
             hits == {i \in DOMAIN pg.cells : pg.cells[i].rowid >= target}
         IN  IF pg.type = "InteriorTable"
             THEN IF hits # {} THEN Pointer(pg.cells[FirstOf(hits)].left)
                  ELSE IF pg.right # None THEN Pointer(pg.right[1])
                  ELSE SearchErr
             ELSE IF pg.type = "LeafTable"
             THEN IF hits # {} THEN Leaf(Some(pg.cells[FirstOf(hits)]))
                  ELSE Leaf(None)
             ELSE SearchErr

\* Page::btree_scan
btree_scan(view, target) == ScanPage(Decoded(view), target)

\* Page::btree_search on the decoded page.
SearchPage(dp, last_rowid, key) ==
    IF dp = None THEN SearchErr
    ELSE LET pg == dp[1]
             pl(i) == index_payload(pg.cells[i])
             ge == {i \in DOMAIN pg.cells : pl(i) # None /\ ValueGe(pl(i)[1].key, key)}
             eq == {i \in DOMAIN pg.cells :
                       pl(i) # None /\ ValueEq(pl(i)[1].key, key) /\ pl(i)[1].rowid > last_rowid}
         IN  IF pg.type = "InteriorIndex"
             THEN IF ge # {}
                  THEN PointerOrRowId(pg.cells[FirstOf(ge)].left, Some(pl(FirstOf(ge))[1].rowid))
                  ELSE IF pg.right # None THEN PointerOrRowId(pg.right[1], None)
                  ELSE SearchErr
             ELSE IF pg.type = "LeafIndex"
             THEN IF eq # {} THEN RowIdResult(Some(pl(FirstOf(eq))[1].rowid))
                  ELSE RowIdResult(None)
             ELSE SearchErr

\* Page::btree_search
btree_search(view, last_rowid, key) == SearchPage(Decoded(view), last_rowid, key)

(***************************************************************************)
(* Schema rows and the Table object.                                       *)
(***************************************************************************)
\* impl Display for RecordValue, on the columns of a schema row.
SchemaText(v) == IF v.t = "Null" THEN "NULL" ELSE v.v

\* Schema::try_from: columns 0 to 4 of the cell; the root page must parse
\* as a PageNum (u32: not negative; the page numbers here are far below 2^32).
SchemaNew(cell) ==
    LET col(i) == CellColumn(cell, i) IN
    IF \E i \in 0..4 : col(i) = None THEN None
    ELSE IF ~(col(3)[1].t \in {"Int", "PrimaryKey"} /\ col(3)[1].v >= 0)
    THEN None
    ELSE Some([type |-> SchemaText(col(0)[1]),
               name |-> SchemaText(col(1)[1]),
               tbl_name |-> SchemaText(col(2)[1]),
               rootpage |-> col(3)[1].v,
               sql |-> col(4)[1].v])

\* str::to_lowercase on the words a column definition is written with.
to_lowercase(w) ==
    CASE w \in {"INTEGER", "Integer"} -> "integer"
      [] w = "PRIMARY" -> "primary"
      [] w = "KEY" -> "key"
      [] w = "TEXT" -> "text"
      [] w \in {"COUNT(*)", "Count(*)"} -> "count(*)"
      [] OTHER -> w

\* def.contains("primary key"): the two words, in this letter case, follow
\* each other in the definition.
ContainsPrimaryKey(def) ==
    \E i \in 1..(Len(def) - 1) : def[i] = "primary" /\ def[i + 1] = "key"

\* TableColumn::new: COL_DEF captures the first word as the name and the
\* second as the type; a definition of fewer than two words does not match.
TableColumnNew(def) ==
    IF Len(def) < 2 THEN None
    ELSE Some([type |-> def[2], name |-> def[1], primary_key |-> ContainsPrimaryKey(def)])

\* TableColumn::is_rowid
is_rowid(col) == to_lowercase(col.type) = "integer" /\ col.primary_key

\* Table::primary_key: the first column whose primary_key is set.
primary_key(tbl) ==
    LET pk == {i \in DOMAIN tbl.columns : tbl.columns[i].primary_key}
    IN  IF pk = {} THEN None ELSE Some(tbl.columns[FirstOf(pk)])

\* Table::col_idx
col_idx(tbl, name) ==
    LET ix == {i \in DOMAIN tbl.columns : tbl.columns[i].name = name}
    IN  IF ix = {} THEN None ELSE Some(FirstOf(ix) - 1)

\* Db::schemas: the cells of page 1 that make a Schema.
\* Page::cells fails on a page that does not decode.
SchemasDecoded(d, dp) ==
    IF dp = None THEN [ok |-> FALSE, schemas |-> <<>>, d |-> d]
    ELSE [ok |-> TRUE,
          schemas |-> SelectSeq([i \in DOMAIN dp[1].cells |-> SchemaNew(dp[1].cells[i])],
                                LAMBDA o : o # None),
          d |-> d]

SchemasOf(pg) == SchemasDecoded(pg.d, IF pg.ok THEN Decoded(pg.page) ELSE None)

DbSchemas(d) == SchemasOf(DbPage(d, 1))

\* TableBuilder::schemas and TableBuilder::build: the last "table" schema of
\* that tbl_name gives the root page and the columns, the "index" schemas
\* give the indexes.
TableBuild(name, ss) ==
    LET mine == SelectSeq(ss.schemas, LAMBDA o : o[1].tbl_name = name)
        tabs == SelectSeq(mine, LAMBDA o : o[1].type = "table")
        idxs == SelectSeq(mine, LAMBDA o : o[1].type = "index")
        ts == tabs[Len(tabs)][1]
        cols == [i \in DOMAIN ts.sql.col_defs |-> TableColumnNew(ts.sql.col_defs[i])]
    IN  IF ~ss.ok \/ tabs = <<>> THEN [ok |-> FALSE, table |-> None, d |-> ss.d]
        ELSE IF \E i \in DOMAIN cols : cols[i] = None
        THEN [ok |-> FALSE, table |-> None, d |-> ss.d]
        ELSE [ok |-> TRUE,
              table |-> Some([rootpage |-> ts.rootpage,
                              name |-> name,
                              columns |-> [i \in DOMAIN cols |-> cols[i][1]],
                              indexes |-> [i \in DOMAIN idxs |->
                                              [name |-> idxs[i][1].sql.name,
                                               columns |-> idxs[i][1].sql.cols,
                                               rootpage |-> idxs[i][1].rootpage]]]),
              d |-> ss.d]

\* Db::table
DbTable(d, name) == TableBuild(name, DbSchemas(d))

(***************************************************************************)
(* Rows and iterators (src/src/db/table.rs).                               *)
(***************************************************************************)
\* TableRow::col: Some(value) for Ok(value), None for Err.
RowCol(tbl, cell, name) ==
    LET key == primary_key(tbl)
        idx == col_idx(tbl, name)
    IN  IF key # None /\ key[1].name = name /\ is_rowid(key[1])
        THEN IF CellRowid(cell) # None THEN Some(RvPrimaryKey(CellRowid(cell)[1])) ELSE None
        ELSE IF idx # None THEN CellColumn(cell, idx[1]) ELSE None

\* A faulty variant of get_key: only the first column of the index and of the
\* conditions are compared.
GetKeyFirstColumn(index, conds) ==
    IF conds # <<>> /\ index.columns[1] = conds[1].col
    THEN Some([index |-> index, key |-> conds[1].value])
    ELSE None

\* A faulty variant of Conditions::satisfy: one condition that holds is enough.
SatisfyAny(conds, tbl, cell) ==
    \E i \in DOMAIN conds :
        LET v == RowCol(tbl, cell, conds[i].col)
        IN  v # None /\ ValueEq(v[1], conds[i].value)

\* Conditions::satisfy
satisfy(conds, tbl, cell) ==
    \A i \in DOMAIN conds :
        LET v == RowCol(tbl, cell, conds[i].col)
        IN  v # None /\ ValueEq(v[1], conds[i].value)

\* The loop of TableRows::next: follow pointers from the root until a page
\* answers with a leaf result. A failed fetch or search is an unwrap() of Err.
RECURSIVE ScanDescend(_, _, _), ScanStep(_, _)
ScanDescend(d, search, rowid) ==
    IF search.kind = "Pointer" THEN ScanStep(DbPage(d, search.p), rowid)
    ELSE [d |-> d, search |-> search]
ScanStep(pg, rowid) ==
    IF ~pg.ok THEN [d |-> pg.d, search |-> SearchErr]
    ELSE ScanDescend(pg.d, btree_scan(pg.page, rowid), rowid)

\* A faulty variant of the next target: the rowid just found.
NextTargetSame(found_rowid) == found_rowid

\* RowId is u64. Of its values the scan uses the order and the successor,
\* so the model keeps a narrow word: 0..RowIdMax, RowIdMax for RowId::MAX,
\* the rowid of the longest varint.
RowIdMax == MaxRowid + 2

\* self.rowid = Some(found_rowid + 1): the sum as a build without overflow
\* checks computes it.
NextTarget(found_rowid) == (found_rowid + 1) % (RowIdMax + 1)

\* found_rowid + 1 does not fit the word: a build with overflow checks
\* panics here ("attempt to add with overflow").
AddOverflows(found_rowid) == found_rowid + 1 > RowIdMax

\* TableRows::next after the descent. `out` is the cell of the TableRow
\* returned.
TableRowsFound(it, rowid, w) ==
    LET found == IF w.search.kind = "Leaf" /\ w.search.cell # None
                 THEN CellRowid(w.search.cell[1]) ELSE None
    IN  IF w.search.kind = "Err"
        THEN [panic |-> TRUE, d |-> w.d, iter |-> [it EXCEPT !.rowid = None], out |-> None]
        ELSE IF found # None /\ found[1] >= rowid /\ checked /\ AddOverflows(found[1])
        THEN [panic |-> TRUE, d |-> w.d, iter |-> [it EXCEPT !.rowid = None], out |-> None]
        ELSE IF found # None /\ found[1] >= rowid
        THEN [panic |-> FALSE, d |-> w.d,
              iter |-> [it EXCEPT !.rowid = Some(NextTarget(found[1]))],
              out |-> Some(w.search.cell[1])]
        ELSE [panic |-> FALSE, d |-> w.d, iter |-> [it EXCEPT !.rowid = None], out |-> None]

\* TableRows::next from the target rowid (self.rowid.take().unwrap_or(MIN)).
TableRowsFrom(d, it, rowid) ==
    TableRowsFound(it, rowid, ScanDescend(d, btree_scan(it.rootpage, rowid), rowid))

\* TableRows::next
TableRowsNext(d, it) == TableRowsFrom(d, it, IF it.rowid = None THEN 0 ELSE it.rowid[1])

\* Table::rows
RowsOver(rowid, pg) ==
    [ok |-> pg.ok, d |-> pg.d, iter |-> [kind |-> "Scan", rowid |-> rowid, rootpage |-> pg.page]]
TableRowsNew(d, tbl, rowid) == RowsOver(rowid, DbPage(d, tbl.rootpage))

\* A faulty variant of the test in get_row: any row found is taken.
RowMatchesAny(cell, rowid) == TRUE

\* row.rowid().is_some_and(|id| id == rowid)
RowMatches(cell, rowid) == CellRowid(cell) = Some(rowid)

\* Table::get_row
GetRowCheck(rowid, nx) ==
    IF nx.panic THEN [ok |-> FALSE, panic |-> TRUE, d |-> nx.d, out |-> None]
    ELSE IF nx.out # None /\ RowMatches(nx.out[1], rowid)
    THEN [ok |-> TRUE, panic |-> FALSE, d |-> nx.d, out |-> nx.out]
    ELSE [ok |-> TRUE, panic |-> FALSE, d |-> nx.d, out |-> None]
GetRowFirst(rowid, it) ==
    IF ~it.ok THEN [ok |-> FALSE, panic |-> FALSE, d |-> it.d, out |-> None]
    ELSE GetRowCheck(rowid, TableRowsNext(it.d, it.iter))
get_row(d, tbl, rowid) == GetRowFirst(rowid, TableRowsNew(d, tbl, Some(rowid)))

\* The loop of IndexRows::next: every interior page replaces the remembered
\* interior rowid by its own.
RECURSIVE SearchDescend(_, _, _, _, _), SearchStep(_, _, _, _)
SearchDescend(d, search, interior, last_rowid, key) ==
    IF search.kind = "PointerOrRowId"
    THEN SearchStep(DbPage(d, search.p), search.rowid, last_rowid, key)
    ELSE [d |-> d, search |-> search, interior |-> interior]
SearchStep(pg, interior, last_rowid, key) ==
    IF ~pg.ok THEN [d |-> pg.d, search |-> SearchErr, interior |-> interior]
    ELSE SearchDescend(pg.d, btree_search(pg.page, last_rowid, key), interior, last_rowid, key)

\* IndexRows::next after the descent. `out` is the rowid returned.
IndexRowsFound(it, w) ==
    LET got == IF w.search.kind = "RowId"
               THEN (IF w.search.rowid # None THEN w.search.rowid ELSE w.interior)
               ELSE None
    IN  IF w.search.kind = "Err"
        THEN [panic |-> TRUE, d |-> w.d, iter |-> [it EXCEPT !.last_rowid = None], out |-> None]
        ELSE IF got # None
        THEN [panic |-> FALSE, d |-> w.d, iter |-> [it EXCEPT !.last_rowid = got], out |-> got]
        ELSE [panic |-> FALSE, d |-> w.d, iter |-> [it EXCEPT !.last_rowid = None], out |-> None]

\* IndexRows::next from last_rowid (self.last_rowid.take().unwrap_or(MIN)).
IndexRowsFrom(d, it, last_rowid) ==
    IndexRowsFound(it, SearchDescend(d, btree_search(it.rootpage, last_rowid, it.key),
                                     None, last_rowid, it.key))

\* IndexRows::next
IndexRowsNext(d, it) ==
    IndexRowsFrom(d, it, IF it.last_rowid = None THEN 0 ELSE it.last_rowid[1])

\* Conditions::cols and Conditions::values
CondCols(conds) == [i \in DOMAIN conds |-> conds[i].col]
CondValues(conds) == [i \in DOMAIN conds |-> conds[i].value]

\* TableIndex::get_key
get_key(index, conds) ==
    IF index.columns = CondCols(conds) /\ conds # <<>>
    THEN Some([index |-> index, key |-> CondValues(conds)[1]])
    ELSE None

\* Table::use_index: the first index that gives a key.
use_index(tbl, conds) ==
    LET hit == {i \in DOMAIN tbl.indexes : get_key(tbl.indexes[i], conds) # None}
    IN  IF hit = {} THEN None ELSE get_key(tbl.indexes[FirstOf(hit)], conds)

\* Table::index_search
IndexOver(key, pg) ==
    [ok |-> pg.ok, d |-> pg.d,
     iter |-> [kind |-> "Index", last_rowid |-> None, key |-> key, rootpage |-> pg.page]]

\* Table::search_rows with Table::table_scan
SearchWith(d, tbl, u) ==
    IF u = None THEN TableRowsNew(d, tbl, None)
    ELSE IndexOver(u[1].key, DbPage(d, u[1].index.rootpage))
search_rows(d, tbl, conds) == SearchWith(d, tbl, use_index(tbl, conds))

\* TableSearch::next. `out` is the cell of the row returned; `rowid` is what
\* the iterator inside returned.
ScanRow(nx) ==
    [panic |-> nx.panic, d |-> nx.d, iter |-> nx.iter, out |-> nx.out,
     rowid |-> IF nx.out = None THEN None ELSE CellRowid(nx.out[1])]
IndexRowGot(nx, gr) ==
    [panic |-> ~gr.ok, d |-> gr.d, iter |-> nx.iter, out |-> gr.out, rowid |-> nx.out]
IndexRow(tbl, nx) ==
    IF nx.panic \/ nx.out = None
    THEN [panic |-> nx.panic, d |-> nx.d, iter |-> nx.iter, out |-> None, rowid |-> None]
    ELSE IndexRowGot(nx, get_row(nx.d, tbl, nx.out[1]))
TableSearchNext(d, tbl, it) ==
    IF it.kind = "Scan" THEN ScanRow(TableRowsNext(d, it))
    ELSE IndexRow(tbl, IndexRowsNext(d, it))

(***************************************************************************)
(* Sql::execute (src/src/sql/mod.rs).                                      *)
(***************************************************************************)
\* The decimal digits of n, as bytes (u64 and usize to_string).
RECURSIVE Digits(_)
Digits(n) == IF n < 10 THEN <<48 + n>> ELSE Digits(n \div 10) \o <<48 + (n % 10)>>

\* impl Display for RecordValue
Display(v) ==
    CASE v.t = "Null" -> <<78, 85, 76, 76>>
      [] v.t \in {"Int", "PrimaryKey"} -> Digits(v.v)
      [] OTHER -> v.v

\* [String]::join("|")
RECURSIVE Join(_)
Join(fields) ==
    IF fields = <<>> THEN <<>>
    ELSE IF Len(fields) = 1 THEN fields[1]
    ELSE fields[1] \o <<124>> \o Join(Tail(fields))

\* A faulty variant of count_rows: the column token is compared as written.
CountRowsCaseSensitive(cols) == \E i \in DOMAIN cols : cols[i] = "count(*)"

\* count_rows
count_rows(cols) == \E i \in DOMAIN cols : to_lowercase(cols[i]) = "count(*)"

\* Running a TableRows to its first None, as Iterator::filter, count and
\* collect do: the cells of the rows that satisfy the conditions, in order.
\* An iterator that has not ended after `fuel` rows never ends (hang).
RECURSIVE ScanAll(_, _, _, _, _, _), ScanAllStep(_, _, _, _, _)
ScanAll(d, tbl, it, conds, acc, fuel) ==
    ScanAllStep(tbl, conds, acc, fuel, TableRowsNext(d, it))
ScanAllStep(tbl, conds, acc, fuel, nx) ==
    IF nx.panic THEN [panic |-> TRUE, hang |-> FALSE, d |-> nx.d, rows |-> acc]
    ELSE IF nx.out = None THEN [panic |-> FALSE, hang |-> FALSE, d |-> nx.d, rows |-> acc]
    ELSE IF fuel = 0 THEN [panic |-> FALSE, hang |-> TRUE, d |-> nx.d, rows |-> acc]
    ELSE ScanAll(nx.d, tbl, nx.iter, conds,
                 IF satisfy(conds, tbl, nx.out[1]) THEN Append(acc, nx.out[1]) ELSE acc,
                 fuel - 1)

\* A faulty variant of the projection: a column that cannot be read is put
\* out as NULL.
ProjectRowNull(tbl, cell, columns) ==
    LET vals == [i \in DOMAIN columns |-> RowCol(tbl, cell, columns[i])]
    IN  Join([i \in DOMAIN vals |-> IF vals[i] = None THEN Display(RvNull)
                                     ELSE Display(vals[i][1])])

\* The line of one row: the values of the requested columns that can be
\* read, formatted and joined by "|".
ProjectRow(tbl, cell, columns) ==
    LET vals == [i \in DOMAIN columns |-> RowCol(tbl, cell, columns[i])]
        oks == SelectSeq(vals, LAMBDA o : o # None)
    IN  Join([i \in DOMAIN oks |-> Display(oks[i][1])])

\* Sql::execute on Select {columns, table, conditions}
ExecFail(d, panic, hang) ==
    [ok |-> FALSE, panic |-> panic, hang |-> hang, d |-> d, outputs |-> <<>>]
\* A faulty variant of the output: the lines of the rows produced before a
\* failure are handed over with the failure.
ExecOutPartial(q, tbl, sc) ==
    [ok |-> ~(sc.panic \/ sc.hang), panic |-> sc.panic, hang |-> sc.hang, d |-> sc.d,
     outputs |-> IF count_rows(q.columns)
                 THEN <<Digits(Len(sc.rows))>>
                 ELSE [i \in DOMAIN sc.rows |-> ProjectRow(tbl, sc.rows[i], q.columns)]]

ExecOut(q, tbl, sc) ==
    IF sc.panic \/ sc.hang THEN ExecFail(sc.d, sc.panic, sc.hang)
    ELSE [ok |-> TRUE, panic |-> FALSE, hang |-> FALSE, d |-> sc.d,
          outputs |-> IF count_rows(q.columns)
                      THEN <<Digits(Len(sc.rows))>>
                      ELSE [i \in DOMAIN sc.rows |-> ProjectRow(tbl, sc.rows[i], q.columns)]]
ExecRows(q, tbl, it) ==
    IF ~it.ok THEN ExecFail(it.d, FALSE, FALSE)
    ELSE ExecOut(q, tbl, ScanAll(it.d, tbl, it.iter, q.conditions, <<>>, MaxRowid + 1))
ExecTable(q, tb) ==
    IF ~tb.ok THEN ExecFail(tb.d, FALSE, FALSE)
    ELSE ExecRows(q, tb.table[1], TableRowsNew(tb.d, tb.table[1], None))
execute(d, q) == ExecTable(q, DbTable(d, q.table))

(***************************************************************************)
(* The state machine: one action per operation on the database object.     *)
(***************************************************************************)
MaxCalls == MaxRowid + 3      \* next() calls followed on one iterator

PageSizes == {128, 512}

PkDefs == {<<"id", "integer", "primary", "key">>,
           <<"id", "INTEGER", "PRIMARY", "KEY">>,
           <<"id", "Integer", "primary", "key", "autoincrement">>}

TableNames == {"t", "u"}
ColumnNames == {"id", "name", "color", "nosuch"}
ProbeKeys == Keys \cup {<<3>>}

Eq(col, value) == [col |-> col, value |-> value]

ConditionSets ==
    {<<>>} \cup {<<Eq("color", k)>> : k \in ProbeKeys}
           \cup {<<Eq("name", <<9, 1>>)>>, <<Eq("color", <<1>>), Eq("name", <<9, 1>>)>>}

Select(columns, tbl, conds) == [columns |-> columns, table |-> tbl, conditions |-> conds]

Queries ==
    {Select(<<"count(*)">>, "t", <<>>),
     Select(<<"COUNT(*)">>, "t", <<Eq("color", <<1>>)>>),
     Select(<<"name", "Count(*)">>, "t", <<Eq("color", <<2>>)>>),
     Select(<<"id", "name">>, "t", <<Eq("color", <<1>>)>>),
     Select(<<"name", "nosuch", "color">>, "t", <<>>),
     Select(<<"name", "color">>, "t", <<Eq("color", <<1>>), Eq("name", <<9, 1>>)>>),
     Select(<<"name">>, "u", <<>>)}

SeqsUpTo(S, n) == UNION {[1..k -> S] : k \in 0..n}

Result(op, arg, ok, val) == [op |-> op, arg |-> arg, ok |-> ok, val |-> val]

\* Db::new over the file of a database: empty page map.
\* No rowid of these files is near RowId::MAX: no sum overflows, whatever
\* the build.
InitDb(db, ps) ==
    /\ disk = db
    /\ r = [file |-> [ps |-> ps, n |-> Len(db)], written |-> <<>>, pos |-> 0]
    /\ pages = <<>>
    /\ table = None
    /\ iter = [kind |-> "none"]
    /\ yielded = <<>>
    /\ panicked = FALSE
    /\ loads = [n \in 1..Len(db) |-> 0]
    /\ ret = Result("new", <<>>, TRUE, <<>>)
    /\ call = NoCall
    /\ checked = TRUE

\* Every assignment of a color to the rows, and one fixed assignment.
Colorings(ids) ==
    {f \in [1..MaxRowid -> Keys] : \A i \in 1..MaxRowid : i \notin ids => f[i] = <<1>>}
Alternating(ids) == {[i \in 1..MaxRowid |-> IF i % 2 = 1 THEN <<1>> ELSE <<2>>]}

LowerPk == <<"id", "integer", "primary", "key">>

\* The whole database object over a two-row table held in a two-level tree.
Init ==
    \E idepth \in 1..2 :
        \E colors \in Alternating({1, 2}) :
            InitDb(Database(<<1, 2>>, colors, 1, 2, FALSE, idepth, LowerPk), 128)

\* Every table B-tree within the bounds: any set of rowids, any leaf
\* capacity, depth 1 to 3, tight or slack interior keys.
InitScan ==
    \E ids \in SUBSET (1..MaxRowid), c \in 1..MaxCap, tdepth \in 1..3, slack \in BOOLEAN :
        \E colors \in Alternating(ids) :
            InitDb(Database(SeqOfSet(ids), colors, c, tdepth, slack, 1, LowerPk), 128)

\* Every index B-tree within the bounds: any set of rows with any colors,
\* any leaf capacity, depth 1 or 2.
InitProbe ==
    \E ids \in SUBSET (1..MaxKeyed), c \in 1..MaxCap, idepth \in 1..2 :
        \E colors \in Colorings(ids) :
            InitDb(Database(SeqOfSet(ids), colors, c, 2, FALSE, idepth, LowerPk), 128)

\* Every table content within the bounds in a tight or slack tree, and
\* every way of writing the primary key column.
InitQuery ==
    \E ids \in SUBSET (1..MaxKeyed) :
        \/ \E colors \in Colorings(ids), slack \in BOOLEAN :
              InitDb(Database(SeqOfSet(ids), colors, MaxCap, 2, slack, 1, LowerPk), 128)
        \/ \E colors \in Alternating(ids), pkdef \in PkDefs :
              InitDb(Database(SeqOfSet(ids), colors, MaxCap, 2, FALSE, 1, pkdef), 128)
        \/ \E colors \in Alternating(ids) :
              /\ 1 \in ids
              /\ InitDb(Shorten(Database(SeqOfSet(ids), colors, MaxCap, 2, FALSE, 1, LowerPk), 1),
                        128)

\* Files of either page size.
InitFile ==
    \E tdepth \in 1..2, ps \in PageSizes :
        \E colors \in Alternating(1..MaxRowid) :
            InitDb(Database(SeqOfSet(1..MaxRowid), colors, MaxCap, tdepth, FALSE, 1, LowerPk), ps)

Apply(d) == r' = d.r /\ pages' = d.pages /\ loads' = d.loads

\* Db::file_header
FileHeaderDone(fh) ==
    /\ Apply(fh.d)
    /\ ret' = Result("file_header", <<>>, fh.ok, IF fh.ok THEN page_size(fh.hdr) ELSE 0)
FileHeader ==
    /\ ~panicked
    /\ FileHeaderDone(file_header(DbState))
    /\ UNCHANGED <<disk, table, iter, yielded, panicked, call, checked>>

\* Db::page(num)
PageDone(num, pg) ==
    /\ Apply(pg.d)
    /\ ret' = Result("page", num, pg.ok, pg.page)
Page(num) ==
    /\ ~panicked
    /\ PageDone(num, DbPage(DbState, num))
    /\ UNCHANGED <<disk, table, iter, yielded, panicked, call, checked>>

\* Db::num_tables: the cell count of page 1.
NumTablesDone(d, dp) ==
    /\ Apply(d)
    /\ ret' = Result("num_tables", <<>>, dp # None, IF dp # None THEN Len(dp[1].cells) ELSE 0)
NumTablesOf(pg) == NumTablesDone(pg.d, IF pg.ok THEN Decoded(pg.page) ELSE None)
NumTables ==
    /\ ~panicked
    /\ NumTablesOf(DbPage(DbState, 1))
    /\ UNCHANGED <<disk, table, iter, yielded, panicked, call, checked>>

\* Db::table_names
TableNamesDone(ss) ==
    /\ Apply(ss.d)
    /\ ret' = Result("table_names", <<>>, ss.ok,
                     [i \in DOMAIN ss.schemas |-> ss.schemas[i][1].tbl_name])
TableNamesOp ==
    /\ ~panicked
    /\ TableNamesDone(DbSchemas(DbState))
    /\ UNCHANGED <<disk, table, iter, yielded, panicked, call, checked>>

\* Db::table(name)
OpenTableDone(name, tb) ==
    /\ Apply(tb.d)
    /\ table' = IF tb.ok THEN tb.table ELSE table
    /\ ret' = Result("table", name, tb.ok, <<>>)
OpenTable(name) ==
    /\ ~panicked
    /\ OpenTableDone(name, DbTable(DbState, name))
    /\ UNCHANGED <<disk, iter, yielded, panicked, call, checked>>

\* Table::search_rows(conditions): a new TableSearch.
SearchRowsDone(conds, sr) ==
    /\ Apply(sr.d)
    /\ iter' = IF sr.ok THEN sr.iter ELSE iter
    /\ yielded' = IF sr.ok THEN <<>> ELSE yielded
    /\ ret' = Result("search_rows", conds, sr.ok, <<>>)
SearchRows(conds) ==
    /\ ~panicked
    /\ table # None
    /\ SearchRowsDone(conds, search_rows(DbState, table[1], conds))
    /\ UNCHANGED <<disk, table, panicked, call, checked>>

\* TableSearch::next on the iterator of the running query.
SearchNextDone(nx) ==
    /\ Apply(nx.d)
    /\ iter' = nx.iter
    /\ yielded' = Append(yielded, nx.rowid)
    /\ panicked' = nx.panic
    /\ ret' = Result("next", iter.kind, ~nx.panic, nx.out)
SearchNext ==
    /\ ~panicked
    /\ iter.kind # "none"
    /\ Len(yielded) < MaxCalls
    /\ SearchNextDone(TableSearchNext(DbState, table[1], iter))
    /\ UNCHANGED <<disk, table, call, checked>>

\* Table::get_row(rowid)
GetRowDone(rowid, gr) ==
    /\ Apply(gr.d)
    /\ panicked' = gr.panic
    /\ ret' = Result("get_row", rowid, gr.ok, gr.out)
GetRow(rowid) ==
    /\ ~panicked
    /\ table # None
    /\ GetRowDone(rowid, get_row(DbState, table[1], rowid))
    /\ UNCHANGED <<disk, table, iter, yielded, call, checked>>

\* TableRow::col(name) on the row the last operation returned.
ColDone(name, cell, v) == ret' = Result("col", [name |-> name, cell |-> cell], v # None, v)
Col(name) ==
    /\ ~panicked
    /\ table # None
    /\ ret.op \in {"next", "get_row"} /\ ret.ok /\ ret.val # None
    /\ ColDone(name, ret.val[1], RowCol(table[1], ret.val[1], name))
    /\ UNCHANGED <<r, pages, loads, disk, table, iter, yielded, panicked, call, checked>>

\* Sql::execute
ExecuteDone(q, ex) ==
    /\ Apply(ex.d)
    /\ panicked' = (ex.panic \/ ex.hang)
    /\ ret' = Result("execute", q, ex.ok, ex.outputs)
Execute(q) ==
    /\ ~panicked
    /\ ExecuteDone(q, execute(DbState, q))
    /\ UNCHANGED <<disk, table, iter, yielded, call, checked>>

\* Tables with any indexes over one or two of their columns, and conditions
\* on the same columns in either order.
IxColumnLists == {<<"color">>, <<"name">>, <<"color", "name">>, <<"name", "color">>}
PlanConditions ==
    {<<>>, <<Eq("color", <<1>>)>>, <<Eq("name", <<9, 1>>)>>, <<Eq("nosuch", <<1>>)>>,
     <<Eq("color", <<1>>), Eq("name", <<9, 1>>)>>,
     <<Eq("name", <<9, 1>>), Eq("color", <<1>>)>>,
     <<Eq("color", <<1>>), Eq("color", <<2>>)>>}

InitPlan == \E ixs \in SeqsUpTo(IxColumnLists, MaxIx) : InitDb(DatabaseIx(ixs), 128)

NextPlan ==
    \/ \E name \in TableNames : OpenTable(name)
    \/ \E conds \in PlanConditions : SearchRows(conds)
    \/ SearchNext

SpecPlan == InitPlan /\ [][NextPlan]_vars

\* Db::new over a file cut off after its first n pages.
InitTruncated(db, ps, n) ==
    /\ disk = db
    /\ r = [file |-> [ps |-> ps, n |-> n], written |-> <<>>, pos |-> 0]
    /\ pages = <<>>
    /\ table = None
    /\ iter = [kind |-> "none"]
    /\ yielded = <<>>
    /\ panicked = FALSE
    /\ loads = [k \in 1..Len(db) |-> 0]
    /\ ret = Result("new", <<>>, TRUE, <<>>)
    /\ call = NoCall
    /\ checked = TRUE

\* Damaged files: a database cut off after any of its pages, or with any
\* page after the first overwritten.
InitFaultOn(db) ==
    \/ \E n \in 1..(Len(db) - 1) : InitTruncated(db, 128, n)
    \/ \E k \in 2..Len(db) : InitDb(Corrupt(db, k), 128)
InitFault ==
    \E idepth \in 1..2 :
        \E colors \in Alternating(1..MaxKeyed) :
            InitFaultOn(Database(SeqOfSet(1..MaxKeyed), colors, MaxCap, 2, FALSE, idepth, LowerPk))

\* Scans, probes, point lookups and queries.
NextFault ==
    \/ \E name \in TableNames : OpenTable(name)
    \/ \E conds \in {<<>>} \cup {<<Eq("color", k)>> : k \in Keys} : SearchRows(conds)
    \/ SearchNext
    \/ \E rowid \in 1..MaxKeyed : GetRow(rowid)
    \/ \E q \in Queries : Execute(q)

SpecFault == InitFault /\ [][NextFault]_vars

(***************************************************************************)
(* The decoders and comparisons of src/src/db/cell.rs and page.rs applied  *)
(* to one input: the input is drawn when the state machine starts.         *)
(***************************************************************************)
\* Record payloads: a header-size byte, serial types (128 and 129 start a
\* two-byte varint), and a body that is a run of one byte value.
HeaderSizeBytes == {0, 1, 2, 3}
SerialCodes == {0, 1, 2, 3, 4, 5, 10, 11, 15, 128, 129}
BodyBytes == {65, 200, 255}
Payloads ==
    {<<h>> \o ts \o [i \in 1..n |-> b] :
        h \in HeaderSizeBytes, ts \in SeqsUpTo(SerialCodes, MaxTypes),
        n \in 0..MaxBody, b \in BodyBytes}

\* Values and string literals to compare.
Literals == SeqsUpTo({53, 65, 66}, MaxLit)
Values ==
    {RvNull, RvInt(-1), RvInt(0), RvInt(5), RvPrimaryKey(5), RvFloat(<<64, 20, 0, 0, 0, 0, 0, 0>>)}
        \cup {RvText(s) : s \in Literals} \cup {RvBlob(s) : s \in Literals}

\* Varint inputs: a run of continuation bytes, then nothing (the input ends
\* inside the varint), a terminal byte, or a terminal byte and one more byte.
ContBytes == {128, 129, 255}
VarintTails == {<<>>, <<0>>, <<1>>, <<127>>, <<1, 255>>}
VarintInputs ==
    {[i \in 1..k |-> c] \o t : c \in ContBytes, k \in 0..MaxCont, t \in VarintTails}

\* Column definitions of a CREATE TABLE text, each a sequence of words.
ColumnDefs ==
    PkDefs \cup {<<"id">>, <<"id", "integer">>, <<"id", "INTEGER">>, <<"name", "text">>,
                 <<"name", "text", "primary", "key">>, <<"name", "TEXT", "PRIMARY", "KEY">>,
                 <<"id", "integer", "PRIMARY", "KEY">>, <<"id", "INTEGER", "primary", "key">>,
                 <<"id", "integer", "primary">>, <<"id", "integer", "key", "primary">>}

Inputs ==
    {[kind |-> "record", bytes |-> bs] : bs \in Payloads}
        \cup {[kind |-> "coldef", def |-> def] : def \in ColumnDefs}
        \cup {[kind |-> "varint", bytes |-> bs] : bs \in VarintInputs}
        \cup {[kind |-> "compare", v |-> v, s |-> s] : v \in Values, s \in Literals}
        \cup {[kind |-> "byte", byte |-> b] : b \in 0..255}

\* A database object over an empty table, and the input drawn.
InitValue ==
    \E input \in Inputs :
        /\ disk = Database(<<>>, [i \in 1..MaxRowid |-> <<1>>], 1, 1, FALSE, 1, LowerPk)
        /\ r = [file |-> [ps |-> 128, n |-> Len(disk)], written |-> <<>>, pos |-> 0]
        /\ pages = <<>>
        /\ table = None
        /\ iter = [kind |-> "none"]
        /\ yielded = <<>>
        /\ panicked = FALSE
        /\ loads = [n \in 1..Len(disk) |-> 0]
        /\ ret = Result("input", input, TRUE, <<>>)
        /\ call = NoCall
        /\ checked = TRUE

\* Record::new(bytes): a panic aborts the process.
RecordNewDone(bytes, rec) ==
    /\ panicked' = (rec.kind = "Panic")
    /\ ret' = Result("record_new", bytes, rec.kind = "Ok", rec)
DecodeRecord ==
    /\ ~panicked
    /\ ret.op = "input" /\ ret.arg.kind = "record"
    /\ RecordNewDone(ret.arg.bytes, RecordNew(ret.arg.bytes))
    /\ UNCHANGED <<r, pages, loads, disk, table, iter, yielded, call, checked>>

\* Varint::new on a cursor at the start of the bytes.
VarintDone(bytes, v) == ret' = Result("varint_new", bytes, v.ok, v)
DecodeVarint ==
    /\ ~panicked
    /\ ret.op = "input" /\ ret.arg.kind = "varint"
    /\ VarintDone(ret.arg.bytes, VarintNew(ret.arg.bytes, 0))
    /\ UNCHANGED <<r, pages, loads, disk, table, iter, yielded, panicked, call, checked>>

\* TableColumn::new(def), and is_rowid() of the column it made.
TableColumnDone(def, col) ==
    ret' = Result("table_column", def, col # None,
                  IF col = None THEN <<>> ELSE [col |-> col[1], is_rowid |-> is_rowid(col[1])])
NewTableColumn ==
    /\ ~panicked
    /\ ret.op = "input" /\ ret.arg.kind = "coldef"
    /\ TableColumnDone(ret.arg.def, TableColumnNew(ret.arg.def))
    /\ UNCHANGED <<r, pages, loads, disk, table, iter, yielded, panicked, call, checked>>

\* PageType::new(byte)
PageTypeDone(byte, ty) == ret' = Result("page_type", byte, ty # None, ty)
DecodePageType ==
    /\ ~panicked
    /\ ret.op = "input" /\ ret.arg.kind = "byte"
    /\ PageTypeDone(ret.arg.byte, PageTypeNew(ret.arg.byte))
    /\ UNCHANGED <<r, pages, loads, disk, table, iter, yielded, panicked, call, checked>>

\* value == literal and value.partial_cmp(literal)
Compare ==
    /\ ~panicked
    /\ ret.op = "input" /\ ret.arg.kind = "compare"
    /\ ret' = Result("compare", ret.arg, TRUE,
                     [eq |-> ValueEq(ret.arg.v, ret.arg.s),
                      cmp |-> partial_cmp(ret.arg.v, ret.arg.s),
                      ge |-> ValueGe(ret.arg.v, ret.arg.s)])
    /\ UNCHANGED <<r, pages, loads, disk, table, iter, yielded, panicked, call, checked>>

NextValue ==
    \/ DecodeRecord
    \/ DecodeVarint
    \/ NewTableColumn
    \/ DecodePageType
    \/ Compare

SpecValue == InitValue /\ [][NextValue]_vars

(***************************************************************************)
(* Db::page step by step (src/src/db/mod.rs 78-123): each lock taken, each *)
(* seek+read of the source and the insertion are steps of their own, and   *)
(* call.held is the set of MutexGuards alive between them.                 *)
(***************************************************************************)
\* A faulty variant of the failed read: the buffer that could not be filled
\* is stored in the page map.
FailedReadInserts(pgs, num, buf) == PageInsert(pgs, num, buf)

\* self.file_header()? and self.read_db(offset, &mut buf)? on Err: Db::page
\* returns before pages.insert.
FailedRead(pgs, num, buf) == pgs

\* return Err(..): the guards go out of scope.
PageFails(num, rd) ==
    /\ pages' = FailedRead(pages, num, rd.buf)
    /\ ret' = Result("page", num, FALSE, PageErr(DbState).page)
    /\ call' = NoCall

\* page(num) up to lock_pages(): page 0 is refused before any lock.
PageEnter(num) ==
    /\ ~panicked
    /\ call.pc = "idle"
    /\ IF num = 0
       THEN ret' = Result("page", num, FALSE, PageErr(DbState).page) /\ call' = call
       ELSE ret' = ret /\ call' = [NoCall EXCEPT !.pc = "get", !.num = num, !.held = {"pages"}]
    /\ UNCHANGED <<r, pages, loads, disk, table, iter, yielded, panicked, checked>>

\* pages.get(&num): a hit returns the stored buffer, a miss goes on to
\* self.file_header().
PagesGet ==
    /\ call.pc = "get"
    /\ IF call.num \in DOMAIN pages
       THEN /\ ret' = Result("page", call.num, TRUE, PageView(call.num, pages[call.num]))
            /\ call' = NoCall
       ELSE ret' = ret /\ call' = [call EXCEPT !.pc = "file_header"]
    /\ UNCHANGED <<r, pages, loads, disk, table, iter, yielded, panicked, checked>>

\* lock_db() at the start of read_db, for the header or for the page.
LockDb ==
    /\ call.pc \in {"file_header", "read_db"}
    /\ call' = [call EXCEPT !.held = @ \cup {"r"},
                            !.pc = IF @ = "file_header" THEN "read_header" ELSE "read_page"]
    /\ UNCHANGED <<r, pages, loads, disk, table, iter, yielded, panicked, ret, checked>>

\* read_db(0, ..) of file_header: seek, read_exact, and the guard of the
\* source is dropped.
ReadHeaderDone(rd) ==
    /\ r' = rd.r
    /\ IF rd.ok
       THEN /\ call' = [call EXCEPT !.pc = "read_db", !.held = @ \ {"r"},
                                    !.ps = page_size(rd.buf)]
            /\ UNCHANGED <<pages, ret>>
       ELSE PageFails(call.num, rd)
ReadHeader ==
    /\ call.pc = "read_header"
    /\ ReadHeaderDone(read_db(r, 0, FILE_HEADER_SIZE))
    /\ UNCHANGED <<loads, disk, table, iter, yielded, panicked, checked>>

\* read_db(offset, ..) of the page.
ReadPageDone(rd) ==
    /\ r' = rd.r
    /\ IF rd.ok
       THEN /\ call' = [call EXCEPT !.pc = "insert", !.held = @ \ {"r"}, !.buf = Some(rd.buf)]
            /\ UNCHANGED <<pages, ret>>
       ELSE PageFails(call.num, rd)
ReadPage ==
    /\ call.pc = "read_page"
    /\ ReadPageDone(read_db(r, PageOffset(call.num, call.ps), call.ps))
    /\ UNCHANGED <<loads, disk, table, iter, yielded, panicked, checked>>

\* pages.insert(num, buf.clone()), and Ok(page): the guard of the page map
\* goes out of scope.
Insert ==
    /\ call.pc = "insert"
    /\ pages' = PageInsert(pages, call.num, call.buf[1])
    /\ loads' = [loads EXCEPT ![call.num] = @ + 1]
    /\ ret' = Result("page", call.num, TRUE, PageView(call.num, call.buf[1]))
    /\ call' = NoCall
    /\ UNCHANGED <<r, disk, table, iter, yielded, panicked, checked>>

\* A database file whole or cut off after any number of its pages.
InitLockOn(db, ps) == \E n \in 0..Len(db) : InitTruncated(db, ps, n)
InitLock ==
    \E ps \in PageSizes :
        \E colors \in Alternating(1..MaxKeyed) :
            InitLockOn(Database(SeqOfSet(1..MaxKeyed), colors, MaxCap, 2, FALSE, 1, LowerPk), ps)

NextLock ==
    \/ \E num \in 0..(Len(disk) + 1) : PageEnter(num)
    \/ PagesGet
    \/ LockDb
    \/ ReadHeader
    \/ ReadPage
    \/ Insert

SpecLock == InitLock /\ [][NextLock]_vars

Next ==
    \/ FileHeader
    \/ \E num \in 0..(Len(disk) + 1) : Page(num)
    \/ NumTables
    \/ TableNamesOp
    \/ \E name \in TableNames : OpenTable(name)
    \/ \E conds \in ConditionSets : SearchRows(conds)
    \/ SearchNext
    \/ \E rowid \in 0..(MaxRowid + 1) : GetRow(rowid)
    \/ \E name \in ColumnNames : Col(name)
    \/ \E q \in Queries : Execute(q)

Spec == Init /\ [][Next]_vars

\* A table that may hold the row of the largest rowid, in a build with or
\* without overflow checks.
ColorsUpTo(n) == [i \in 1..n |-> IF i % 2 = 1 THEN <<1>> ELSE <<2>>]
InitLargest ==
    \E ids \in SUBSET ((1..MaxKeyed) \cup {RowIdMax}), c \in 1..MaxCap, tdepth \in 1..2 :
        \E build \in BOOLEAN :
            /\ disk = Database(SeqOfSet(ids), ColorsUpTo(RowIdMax), c, tdepth, FALSE, 1, LowerPk)
            /\ r = [file |-> [ps |-> 128, n |-> Len(disk)], written |-> <<>>, pos |-> 0]
            /\ pages = <<>>
            /\ table = None
            /\ iter = [kind |-> "none"]
            /\ yielded = <<>>
            /\ panicked = FALSE
            /\ loads = [n \in 1..Len(disk) |-> 0]
            /\ ret = Result("new", <<>>, TRUE, <<>>)
            /\ call = NoCall
            /\ checked = build

NextLargest ==
    \/ \E name \in TableNames : OpenTable(name)
    \/ SearchRows(<<>>)
    \/ SearchNext

SpecLargest == InitLargest /\ [][NextLargest]_vars

\* Table scans and point lookups.
NextScan ==
    \/ \E name \in TableNames : OpenTable(name)
    \/ SearchRows(<<>>)
    \/ SearchNext
    \/ \E rowid \in 0..(MaxRowid + 1) : GetRow(rowid)

SpecScan == InitScan /\ [][NextScan]_vars

\* Index probes.
NextProbe ==
    \/ \E name \in TableNames : OpenTable(name)
    \/ \E k \in ProbeKeys : SearchRows(<<Eq("color", k)>>)
    \/ SearchNext

SpecProbe == InitProbe /\ [][NextProbe]_vars

\* Queries, with a scan of the same table to compare them with, and
\* projection of the scanned rows.
NextQuery ==
    \/ \E name \in TableNames : OpenTable(name)
    \/ SearchRows(<<>>)
    \/ SearchNext
    \/ \E name \in ColumnNames : Col(name)
    \/ \E q \in Queries : Execute(q)

SpecQuery == InitQuery /\ [][NextQuery]_vars

\* The page map and the byte source.
NextFile ==
    \/ FileHeader
    \/ \E num \in 0..(Len(disk) + 1) : Page(num)
    \/ NumTables
    \/ TableNamesOp

SpecFile == InitFile /\ [][NextFile]_vars

(***************************************************************************)
(* What the file holds, read off its pages, for stating the properties.    *)
(***************************************************************************)
\* The leaf cells below page n, in tree order.
RECURSIVE CellsUnder(_), CellsFrom(_, _)
CellsUnder(n) == IF disk[n].right = None THEN disk[n].cells ELSE CellsFrom(disk[n], 1)
CellsFrom(pg, i) ==
    IF i > Len(pg.cells) THEN CellsUnder(pg.right[1])
    ELSE CellsUnder(pg.cells[i].left) \o CellsFrom(pg, i + 1)

\* The rows of the open table.
TableCells == CellsUnder(table[1].rootpage)
StoredRowids == {TableCells[i].rowid : i \in DOMAIN TableCells}
CellOf(rowid) == TableCells[CHOOSE i \in DOMAIN TableCells : TableCells[i].rowid = rowid]

\* The position of a column of t in the record of a row (0: no such column).
ColPos(col) ==
    CASE col = "id" -> 1
      [] col = "name" -> 2
      [] col = "color" -> 3
      [] OTHER -> 0

\* The value a stored row has in a text column; <<-1>> when the record has
\* no text at the position of the column.
TextOf(cell, col) ==
    IF ColPos(col) \in DOMAIN cell.payload /\ cell.payload[ColPos(col)].t = "Text"
    THEN cell.payload[ColPos(col)].v
    ELSE <<-1>>
Holds(cell, conds) == \A i \in DOMAIN conds : TextOf(cell, conds[i].col) = conds[i].value

\* An interior page of the table whose key is not a stored rowid.
HasSlack ==
    \E n \in DOMAIN disk :
        /\ disk[n].type = "InteriorTable"
        /\ \E i \in DOMAIN disk[n].cells : disk[n].cells[i].rowid \notin StoredRowids

\* The run of the current iterator: what it yielded up to its first None.
Ended == \E i \in DOMAIN yielded : yielded[i] = None
Run ==
    IF Ended THEN SubSeq(yielded, 1, FirstOf({i \in DOMAIN yielded : yielded[i] = None}) - 1)
    ELSE yielded
RunRowids == {Run[i][1] : i \in DOMAIN Run}

(***************************************************************************)
(* Table scans and point lookups (SpecScan).                               *)
(***************************************************************************)
\* C1: the rows a table scan yields up to its first None have strictly
\* ascending rowids: each is greater than the one yielded before it, so no
\* rowid is yielded twice.
C1_ScanAscending ==
    iter.kind = "Scan" =>
        \A i \in 1..(Len(Run) - 1) : Run[i][1] < Run[i + 1][1]

\* A scan of a three-level tree that has yielded four rows.
C1_Witness ==
    /\ iter.kind = "Scan"
    /\ Len(Run) >= 4
    /\ disk[2].type = "InteriorTable"
    /\ disk[3].type = "InteriorTable"

\* C2: a table scan run to its first None has yielded every leaf cell of the
\* tree exactly once: as many rows as the leaf pages hold cells, and every
\* stored rowid among them.
C2_ScanComplete ==
    (iter.kind = "Scan" /\ Ended) =>
        /\ Len(Run) = Len(TableCells)
        /\ RunRowids = StoredRowids

\* C3: get_row(r) returns a row exactly when a leaf cell of the table has
\* rowid r, the row is that leaf cell, and for every row a scan yields a
\* point lookup with its rowid returns the same cell.
C3_PointLookup ==
    /\ ret.op = "get_row" =>
          /\ ret.ok
          /\ (ret.val # None) <=> (ret.arg \in StoredRowids)
          /\ ret.val # None => ret.val[1] = CellOf(ret.arg)
    /\ (ret.op = "next" /\ iter.kind = "Scan" /\ ret.val # None) =>
          get_row(DbState, table[1], ret.val[1].rowid).out = ret.val

\* A point lookup that found its row to the right of a slack interior key.
C3_Witness ==
    /\ ret.op = "get_row"
    /\ ret.val # None
    /\ HasSlack
    /\ \E i \in DOMAIN disk[2].cells :
          /\ disk[2].cells[i].rowid \notin StoredRowids
          /\ disk[2].cells[i].rowid < ret.arg

(***************************************************************************)
(* Index probes (SpecProbe).                                               *)
(***************************************************************************)
\* The rowids of the rows whose color is the key.
Matching(key) ==
    {TableCells[i].rowid : i \in {j \in DOMAIN TableCells : TextOf(TableCells[j], "color") = key}}

\* C4: the rowids an index probe yields are those of the rows whose indexed
\* column equals the key: no other rowid is yielded, and when the probe has
\* ended none of them is missing.
C4_ProbeEqualsFilter ==
    iter.kind = "Index" =>
        /\ RunRowids \subseteq Matching(iter.key)
        /\ Ended => Matching(iter.key) \subseteq RunRowids

\* C5: every rowid an index probe yields is greater than the rowid yielded
\* by the call before.
C5_ProbeAscending ==
    iter.kind = "Index" =>
        \A i \in 1..(Len(yielded) - 1) :
            (yielded[i] # None /\ yielded[i + 1] # None) => yielded[i][1] < yielded[i + 1][1]

(***************************************************************************)
(* Queries and projection (SpecQuery).                                     *)
(***************************************************************************)
\* The number a line of decimal digits stands for; -1 if it is not one.
RECURSIVE Decimal(_)
Decimal(line) ==
    IF line = <<>> THEN -1
    ELSE IF line[Len(line)] \notin 48..57 THEN -1
    ELSE IF Len(line) = 1 THEN line[1] - 48
    ELSE LET hi == Decimal(SubSeq(line, 1, Len(line) - 1))
         IN  IF hi < 0 THEN -1 ELSE hi * 10 + (line[Len(line)] - 48)

\* The column list holds count(*) in some letter case.
AsksCount(q) == \E i \in DOMAIN q.columns : q.columns[i] \in {"count(*)", "COUNT(*)", "Count(*)"}

\* C6: a SELECT whose column list holds count(*), in any letter case,
\* returns exactly one line, and the line is the number of rows a scan of
\* the table yields that satisfy the conditions (all of them when there are
\* no conditions).
C6_CountLine ==
    (ret.op = "execute" /\ AsksCount(ret.arg) /\ ret.arg.table = "t"
        /\ iter.kind = "Scan" /\ Ended) =>
        /\ ret.ok
        /\ Len(ret.val) = 1
        /\ Decimal(ret.val[1]) =
              Cardinality({i \in DOMAIN Run : Holds(CellOf(Run[i][1]), ret.arg.conditions)})

\* An upper-case COUNT(*) with a condition that keeps two rows of a longer
\* scan.
C6_Witness ==
    /\ ret.op = "execute"
    /\ ret.arg.columns = <<"COUNT(*)">>
    /\ ret.val = <<Digits(2)>>
    /\ iter.kind = "Scan" /\ Ended
    /\ Len(Run) > 2

\* C7: on a table that declares id INTEGER PRIMARY KEY, col("id") of a row
\* returns PrimaryKey(rowid of the row's cell), never the Null of the record.
C7_RowidAlias ==
    (ret.op = "col" /\ ret.arg.name = "id") =>
        /\ ret.ok
        /\ ret.val = Some(RvPrimaryKey(ret.arg.cell.rowid))

\* The rows of the scan that hold every condition, in scan order.
Kept(conds) == SelectSeq(Run, LAMBDA o : Holds(CellOf(o[1]), conds))

\* Byte k of the line starts the name of row `rowid`.
NameAt(line, k, rowid) == k + 1 <= Len(line) /\ line[k] = 9 /\ line[k + 1] = rowid

\* C17: the result of a query on the full-scan path holds one line for each
\* scanned row that satisfies every condition of the query, in scan order,
\* and no line for a row that fails one of them; with no conditions it holds
\* a line for every scanned row.
C17_FilterConjunction ==
    (ret.op = "execute" /\ ~AsksCount(ret.arg) /\ ret.arg.table = "t"
        /\ iter.kind = "Scan" /\ Ended) =>
        /\ ret.ok
        /\ Len(ret.val) = Len(Kept(ret.arg.conditions))
        /\ ret.arg.conditions = <<>> => Len(ret.val) = Len(Run)
        /\ \A i \in DOMAIN ret.val :
              \E k \in DOMAIN ret.val[i] : NameAt(ret.val[i], k, Kept(ret.arg.conditions)[i][1])

\* A query with two conditions has kept one row of a scan that also yielded
\* a row failing both conditions and a row failing only the second.
C17_Witness ==
    /\ ret.op = "execute" /\ Len(ret.arg.conditions) = 2
    /\ iter.kind = "Scan" /\ Ended
    /\ Len(ret.val) = 1
    /\ \E i \in DOMAIN Run :
          /\ ~Holds(CellOf(Run[i][1]), <<ret.arg.conditions[1]>>)
          /\ ~Holds(CellOf(Run[i][1]), <<ret.arg.conditions[2]>>)
    /\ \E i \in DOMAIN Run :
          /\ Holds(CellOf(Run[i][1]), <<ret.arg.conditions[1]>>)
          /\ ~Holds(CellOf(Run[i][1]), <<ret.arg.conditions[2]>>)

\* A requested column can be read for a row: id always (the rowid or the
\* first value of the record), another column when the table has it and the
\* record has a value at its position.
Readable(cell, col) == ColPos(col) \in DOMAIN cell.payload

\* The text a readable column of a row is put out as.
FieldOf(cell, col) ==
    IF col = "id" THEN Display(RowCol(table[1], cell, col)[1])
    ELSE Display(cell.payload[ColPos(col)])

\* The fields of the readable columns, in request order, with "|" between.
LineOf(cell, columns) ==
    LET ix == SelectSeq([i \in DOMAIN columns |-> i], LAMBDA i : Readable(cell, columns[i]))
    IN  Join([k \in DOMAIN ix |-> FieldOf(cell, columns[ix[k]])])

\* C18: the line of a row holds the values of the requested columns that
\* can be read for the row, in request order, joined by "|"; a column of an
\* unknown name or without a value in the record is left out, no NULL stands
\* for it, and the query succeeds.
C18_ProjectionSkips ==
    (ret.op = "execute" /\ ~AsksCount(ret.arg) /\ ret.arg.table = "t"
        /\ iter.kind = "Scan" /\ Ended) =>
        /\ ret.ok
        /\ \A i \in DOMAIN ret.val :
              i \in DOMAIN Kept(ret.arg.conditions) =>
                  ret.val[i] = LineOf(CellOf(Kept(ret.arg.conditions)[i][1]), ret.arg.columns)

\* name, nosuch, color was asked of a row whose record has no color and of
\* a row that has one: the lines are the name alone, and name|color.
C18_Witness ==
    /\ ret.op = "execute" /\ ret.arg.columns = <<"name", "nosuch", "color">>
    /\ iter.kind = "Scan" /\ Ended
    /\ Len(ret.val) >= 2
    /\ ret.val[1] = <<9, 1>>
    /\ ret.val[2] = <<9, 2, 124, 2>>

(***************************************************************************)
(* The byte source and the page map (Spec, SpecFile).                      *)
(***************************************************************************)
\* C8: whatever operation is applied to the database object, the content of
\* the byte source stays what it was: only its seek position moves.
C8_SourceUnchanged ==
    [][r'.file = r.file /\ r'.written = r.written]_vars

\* Every page of the file has been read, a probe and a query have run, and
\* the source still holds the file as created.
C8_Witness ==
    /\ \A n \in DOMAIN loads : loads[n] >= 1
    /\ r.pos > 0
    /\ r.written = <<>>
    /\ ret.op = "execute" /\ ret.ok
    /\ iter.kind = "Index" /\ Len(yielded) > 0

\* C9: the buffer page(n) returns holds page_size bytes, the bytes of the
\* source at offsets (n-1)*page_size to n*page_size - 1, and the view has
\* header_offset 100 for n = 1 and 0 for every other n.
C9_PageBytes ==
    (ret.op = "page" /\ ret.ok) =>
        LET n == ret.arg
            ps == r.file.ps
            buf == ret.val.buffer
        IN  /\ n >= 1
            /\ buf.len = ps
            /\ \A j \in 1..ps : BufByte(buf, j) = SrcByte(r, (n - 1) * ps + j)
            /\ ret.val.header_offset = (IF n = 1 THEN 100 ELSE 0)

\* page(n) for a page other than the first, of a file of 512-byte pages.
C9_Witness ==
    /\ ret.op = "page" /\ ret.ok
    /\ ret.arg > 1
    /\ r.file.ps = 512
    /\ ret.val.buffer.len = 512

\* C10: the bytes of page n are read from the source at most once, and a
\* page(n) call for a page already in the page map does no seek and no read
\* and returns the buffer the map holds.
C10_ReadOnce ==
    [][/\ \A n \in DOMAIN loads' : loads'[n] <= 1
       /\ \A n \in DOMAIN pages :
             Page(n) => (r' = r /\ loads' = loads /\ pages' = pages
                         /\ ret'.ok /\ ret'.val.buffer = pages[n])]_vars

\* page(n) answered from the page map after another page was read.
C10_Witness ==
    /\ ret.op = "page" /\ ret.ok
    /\ loads[ret.arg] = 1
    /\ r.pos # ret.arg * r.file.ps
    /\ ret.val.buffer = pages[ret.arg]

\* C11: the page map is empty when the database object is created, and every
\* page in the map stays in the map with the same buffer in the next state,
\* whatever operation is applied: nothing is evicted, nothing is replaced.
C11_PageMapGrows ==
    /\ pages = <<>>
    /\ [][\A n \in DOMAIN pages : n \in DOMAIN pages' /\ pages'[n] = pages[n]]_vars

\* A failed page call on a database object whose map holds five pages or
\* more, filled by a query and a probe.
C11_Witness ==
    /\ Cardinality(DOMAIN pages) >= 5
    /\ ret.op = "page" /\ ~ret.ok
    /\ iter.kind = "Index" /\ Len(yielded) > 0

\* C12: page(0) fails without a seek or a read of the byte source and
\* leaves the page map as it was, and the page map never holds an entry for
\* page number 0.
C12_PageZero ==
    /\ [](0 \notin DOMAIN pages)
    /\ [][Page(0) => (~ret'.ok /\ r' = r /\ loads' = loads /\ pages' = pages)]_vars

\* page(0) has failed on a database object that has pages in its map.
C12_Witness ==
    /\ ret.op = "page" /\ ret.arg = 0 /\ ~ret.ok
    /\ Cardinality(DOMAIN pages) >= 2
    /\ r.pos > 0

(***************************************************************************)
(* Decoding and comparing values (SpecValue).                              *)
(***************************************************************************)
\* The serial-type bytes of a payload whose header size is one byte: the
\* bytes after the first, up to the header size or the end of the payload.
HeaderOf(bytes) ==
    IF bytes = <<>> \/ bytes[1] >= 128 THEN <<>>
    ELSE SubSeq(bytes, 2, Min(bytes[1], Len(bytes)))

\* The header holds serial type 10 or 11, after one-byte serial types only.
HasInvalidSerialType(bytes) ==
    \E i \in DOMAIN HeaderOf(bytes) :
        /\ HeaderOf(bytes)[i] \in {10, 11}
        /\ \A j \in 1..(i - 1) : HeaderOf(bytes)[j] < 128

\* C13: decoding a record whose header holds serial type 10 or 11 ends in a
\* decode error returned to the caller and never in a panic, and a page-type
\* byte other than 0x02, 0x05, 0x0a, 0x0d ends in an error returned to the
\* caller.
C13_DecodeErrorsTyped ==
    /\ (ret.op = "record_new" /\ HasInvalidSerialType(ret.arg)) =>
          (~panicked /\ ret.val.kind = "Err")
    /\ (ret.op = "page_type" /\ ret.arg \notin {2, 5, 10, 13}) =>
          (~panicked /\ ~ret.ok)

\* The body bytes of a serial type.
BodyLenOf(code) ==
    IF code >= 12 THEN (code - 12) \div 2
    ELSE IF code = 0 THEN 0
    ELSE <<1, 2, 3, 4, 6, 8, 8, 0, 0, 0, 0>>[code]

\* The payload is a whole record with a column of serial type 5: the header
\* is complete, the columns before it are Null or integers, and the body has
\* the bytes of every column up to and including the 48-bit one.
Has48BitColumn(bytes) ==
    LET hdr == HeaderOf(bytes) IN
    /\ bytes # <<>> /\ bytes[1] < 128 /\ bytes[1] <= Len(bytes)
    /\ \E i \in DOMAIN hdr :
          /\ hdr[i] = 5
          /\ \A j \in 1..(i - 1) : hdr[j] \in {0, 1, 2, 3, 4, 6, 8, 9}
          /\ LET need == [j \in 1..i |-> BodyLenOf(hdr[j])]
                 total[k \in 0..i] == IF k = 0 THEN 0 ELSE total[k - 1] + need[k]
             IN  Len(bytes) >= bytes[1] + total[i]

\* C14: decoding a record with a column of serial type 5 ends in the
\* Unimplemented error returned to the caller: no panic, no value.
C14_Unimplemented ==
    (ret.op = "record_new" /\ Has48BitColumn(ret.arg)) =>
        (~panicked /\ ret.val = RecErr("Unimplemented"))

\* The order of two byte strings, by their first difference.
LexOrder(a, b) ==
    LET n == Min(Len(a), Len(b))
        diff == {i \in 1..n : a[i] # b[i]}
    IN  IF diff = {}
        THEN (IF Len(a) = Len(b) THEN "Equal" ELSE IF Len(a) < Len(b) THEN "Less" ELSE "Greater")
        ELSE (IF a[FirstOf(diff)] < b[FirstOf(diff)] THEN "Less" ELSE "Greater")

\* C19: a record value equals a string literal exactly when it is Text of
\* the same bytes; a Null, Int, Float, Blob or PrimaryKey value equals no
\* literal and has no order against one; a Text value is ordered against a
\* literal by lexicographic byte order.
C19_TextOnlyComparison ==
    ret.op = "compare" =>
        LET v == ret.arg.v
            s == ret.arg.s
        IN  /\ ret.val.eq <=> (v.t = "Text" /\ v.v = s)
            /\ v.t # "Text" => (~ret.val.eq /\ ret.val.cmp = None /\ ~ret.val.ge)
            /\ v.t = "Text" =>
                  /\ ret.val.cmp = Some(LexOrder(v.v, s))
                  /\ ret.val.ge <=> (LexOrder(v.v, s) \in {"Equal", "Greater"})

\* A Blob compared with the literal of the same bytes: not equal.
C19_Witness ==
    /\ ret.op = "compare"
    /\ ret.arg.v.t = "Blob" /\ ret.arg.v.v = ret.arg.s /\ Len(ret.arg.s) = 2
    /\ ~ret.val.eq

(***************************************************************************)
(* Damaged files (SpecFault).                                              *)
(***************************************************************************)
\* C15: when a page cannot be fetched or decoded while a scan, a probe or a
\* point lookup is advanced, the call returns to its caller with an error
\* value: the program is never aborted by a panic.
C15_ErrorsReachCaller ==
    ret.op \in {"next", "get_row"} => ~panicked

\* C16: a query that fails has put out no result line, also when rows had
\* been produced before the failure.
C16_NoPartialOutput ==
    (ret.op = "execute" /\ ~ret.ok) => ret.val = <<>>

\* A query over the table has failed on the second leaf page, after the
\* scan had read the first leaf page and its rows.
C16_Witness ==
    /\ ret.op = "execute" /\ ~ret.ok /\ ret.arg.table = "t"
    /\ ~AsksCount(ret.arg) /\ ret.arg.conditions = <<>>
    /\ disk[3].type = "LeafTable" /\ Len(disk[3].cells) > 0 /\ loads[3] = 1
    /\ (disk[4].type = "Invalid" \/ r.file.n = 3)
    /\ table = None /\ iter.kind = "none"

(***************************************************************************)
(* The choice between index probe and table scan (SpecPlan).               *)
(***************************************************************************)
\* The column lists of the indexes of t, read off page 1 of the file: index
\* i is the cell after the table's and has its root on page 2 + i.
IndexesOnDisk == [i \in 1..(Len(disk[1].cells) - 1) |-> disk[1].cells[i + 1].payload[5].v.cols]

\* C20: search_rows gives an index probe exactly when the columns of the
\* conditions, in their order, are the column list of an index of the table;
\* the probe then runs on the root page of such an index with the value of
\* the first condition as its key. In every other case (no conditions, no
\* such index, another order or length) it gives a scan of the table from
\* its first row.
C20_IndexChoice ==
    (ret.op = "search_rows" /\ ret.ok) =>
        LET cols == [i \in DOMAIN ret.arg |-> ret.arg[i].col]
            match == {i \in DOMAIN IndexesOnDisk : IndexesOnDisk[i] = cols}
        IN  IF match # {}
            THEN /\ iter.kind = "Index"
                 /\ iter.key = ret.arg[1].value
                 /\ \E i \in match : iter.rootpage.buffer.off = (1 + i) * r.file.ps
            ELSE /\ iter.kind = "Scan"
                 /\ iter.rowid = None
                 /\ iter.rootpage.buffer.off = r.file.ps

\* Conditions on name and color, in this order, met an index on color and
\* an index on (name, color): the probe runs on the second with the name as
\* its key.
C20_Witness ==
    /\ ret.op = "search_rows" /\ ret.ok
    /\ IndexesOnDisk = <<(<<"color">>), <<"name", "color">>>>
    /\ ret.arg = <<Eq("name", <<9, 1>>), Eq("color", <<1>>)>>
    /\ iter.kind = "Index" /\ iter.key = <<9, 1>>
    /\ iter.rootpage.buffer.off = 3 * r.file.ps

(***************************************************************************)
(* Varints.                                                                *)
(***************************************************************************)
\* The value of a nine-byte varint in the file format: seven bits of each
\* of the first eight bytes, then the eight bits of the ninth.
RECURSIVE SevenBits(_, _)
SevenBits(bytes, n) ==
    IF n = 0 THEN U64Zero
    ELSE U64Add(Shl(SevenBits(bytes, n - 1), 7), U64Of(bytes[n] % 128))
NineByteValue(bytes) == U64Add(Shl(SevenBits(bytes, 8), 8), U64Of(bytes[9]))

\* The first n bytes are there and have their high bit set.
Continued(bytes, n) == Len(bytes) >= n /\ \A i \in 1..n : bytes[i] >= 128

\* C21: Varint::new consumes between 1 and 9 bytes: a varint it returns has
\* a byte_len in 1..9, and when the first nine bytes all have their high bit
\* set it returns a varint of nine bytes.
C21_VarintLength ==
    (ret.op = "varint_new") =>
        /\ ret.ok => ret.val.byte_len \in 1..9
        /\ Continued(ret.arg, 9) => (ret.ok /\ ret.val.byte_len = 9)

\* C22: when the first eight bytes have their high bit set and a ninth byte
\* follows, the value decoded is the 7 low bits of each of the eight bytes
\* followed by all 8 bits of the ninth.
C22_NinthByte ==
    (ret.op = "varint_new" /\ Continued(ret.arg, 8) /\ Len(ret.arg) >= 9) =>
        (ret.ok /\ ret.val.value = NineByteValue(ret.arg))

(***************************************************************************)
(* Records.                                                                *)
(***************************************************************************)
RECURSIVE BodyLength(_)
BodyLength(types) == IF types = <<>> THEN 0 ELSE Head(types).n + BodyLength(Tail(types))

\* C23: after Record::new has decoded a record, the bytes it consumed from
\* the payload are header_size plus the body lengths of the serial types it
\* decoded, and the bytes it read for the header (the header_size varint
\* and the serial-type varints) are header_size exactly.
C23_BytesConsumed ==
    (ret.op = "record_new" /\ ret.ok) =>
        /\ ret.val.consumed = ret.val.header_size + BodyLength(ret.val.types)
        /\ ret.val.header_read = ret.val.header_size

\* The body bytes of the i-th column of a decoded record.
ColumnBody(bytes, rec, i) ==
    LET start == rec.header_read + BodyLength(SubSeq(rec.types, 1, i - 1))
    IN  SubSeq(bytes, start + 1, start + rec.types[i].n)

\* The big-endian two's-complement number of a run of bytes: with the top
\* bit set it is minus one minus the number of the inverted bytes.
TwosComplement(bs) ==
    IF bs[1] >= 128 THEN 0 - 1 - UnsignedBe([i \in DOMAIN bs |-> 255 - bs[i]])
    ELSE UnsignedBe(bs)

\* C24: a column of serial type 3 decodes to the big-endian two's-complement
\* number of its three body bytes, negative when the top bit is set, as the
\* columns of serial types 1, 2 and 4 do for their one, two and four bytes.
C24_SignedInt24 ==
    (ret.op = "record_new" /\ ret.ok) =>
        \A i \in DOMAIN ret.val.types :
            ret.val.types[i].t \in {"TwosComplement8", "TwosComplement16",
                                   "TwosComplement24", "TwosComplement32"} =>
                ret.val.values[i] = RvInt(TwosComplement(ColumnBody(ret.arg, ret.val, i)))

(***************************************************************************)
(* Column definitions.                                                     *)
(***************************************************************************)
\* The words of a column definition in lower case.
Lowercased(def) == [i \in DOMAIN def |-> to_lowercase(def[i])]

\* C25: the column made of a definition has primary_key set exactly when
\* the definition in lower case contains "primary key", in whatever letter
\* case it is written, and it is a rowid alias exactly when it is primary
\* key and its declared type in lower case is "integer".
C25_PrimaryKeyAnyCase ==
    (ret.op = "table_column" /\ ret.ok) =>
        /\ ret.val.col.primary_key = ContainsPrimaryKey(Lowercased(ret.arg))
        /\ ret.val.is_rowid = (/\ ContainsPrimaryKey(Lowercased(ret.arg))
                               /\ to_lowercase(ret.arg[2]) = "integer")

(***************************************************************************)
(* The locks of Db::page.                                                  *)
(***************************************************************************)
\* C26: each lock is held only for one seek+read or one mutation of the
\* page map: the lock of the page map is not held while the source is read,
\* the lock of the source is held only for a seek+read, and no lock is held
\* when page() has returned.
C26_LocksBrief ==
    /\ call.pc \in {"read_header", "read_page"} => "pages" \notin call.held
    /\ "r" \in call.held => call.pc \in {"read_header", "read_page"}
    /\ call.pc = "idle" => call.held = {}

\* C29: a page(n) call that fails because the source cannot deliver the
\* file header or the whole page leaves the page map as it was: no step of
\* a call other than its successful return changes the map, after the
\* failure the map has no entry for n, and a later page(n) call, finding no
\* entry, goes on to read the source again.
C29_FailedPageKeepsMap ==
    /\ [][(call.pc # "idle" /\ ~(call'.pc = "idle" /\ ret'.ok)) => pages' = pages]_vars
    /\ []((call.pc = "idle" /\ ret.op = "page" /\ ~ret.ok) => ret.arg \notin DOMAIN pages)
    /\ [][(call.pc = "get" /\ call.num \notin DOMAIN pages) => call'.pc = "file_header"]_vars

\* page(n) failed on a short read of the page, and the next page(n) call
\* has read the file header again and stands before the read of the page,
\* the map still without an entry for n.
C29_Witness ==
    /\ ret.op = "page" /\ ~ret.ok /\ ret.arg = call.num
    /\ call.pc = "read_page" /\ call.held = {"pages", "r"}
    /\ call.num \notin DOMAIN pages
    /\ pages # <<>>

(***************************************************************************)
(* The end of a scan.                                                      *)
(***************************************************************************)
\* C27: a table scan ends: no next() call panics, and by the time one more
\* next() call was made than the table has rows, one of the calls has
\* returned None. This holds whatever rowids are stored, the largest rowid
\* included.
C27_ScanTerminates ==
    iter.kind = "Scan" =>
        /\ ~panicked
        /\ Len(yielded) > Len(TableCells) => Ended

\* C28: once a next() call of a table scan or of an index probe has
\* returned None, every later next() call on the same iterator returns None.
C28_ExhaustedStays ==
    iter.kind \in {"Scan", "Index"} =>
        \A i \in DOMAIN yielded :
            yielded[i] = None => \A j \in i..Len(yielded) : yielded[j] = None

====
